---- MODULE Spec2Model ----
(***************************************************************************)
(* A model of go-multi-llm's streaming engine: one GenerateTextStream call *)
(* of one provider, the transport it reads, the caller-owned delivery      *)
(* channel, the caller's cancellation and the consumer of the channel;     *)
(* and of the Z.AI provider's non-streaming GenerateText.                  *)
(*                                                                         *)
(* The worker is cut into steps at its blocking points: the transport read *)
(* and the channel send.  Everything the code does between two blocking    *)
(* points is one step.                                                     *)
(***************************************************************************)
EXTENDS Integers, Sequences, FiniteSets, TLC

VARIABLES
    provider,     \* which provider's GenerateTextStream is running
    cap,          \* capacity of the caller-supplied channel (0 = unbuffered)
    pc,           \* worker position: start, loop, read, send, done
    snd,          \* the pending send: chunk, guarded by ctx?, what follows
    buf,          \* chunks sitting in the channel's buffer
    received,     \* chunks the consumer has taken from the channel
    consumer,     \* "recv" while the caller still receives, "gone" after
    ctxDone,      \* the caller's context has been cancelled
    ret,          \* the call's error result: "none" until it returns
    closes,       \* how many times close(outChan) has run
    sendOnClosed, \* a send was attempted on the closed channel
    nread,        \* transport reads that returned a frame
    lastFrame,    \* the frame most recently decoded
    visible,      \* non-empty visible-content values decoded so far, in order
    sentinelSeen, \* the vendor's terminal sentinel has been decoded
    readErr,      \* the error of a failed transport read, "nil" if none
    cancelEarly,  \* ctx was cancelled before the stream's end, the worker blocked on a fragment send
    streamEnded,  \* the worker saw EOF, the sentinel, a read error or returned
    usage,        \* the worker's usage accumulator, NilUsage while it holds none
    reported,     \* per field, the most recent non-zero value a frame reported
    retUsage,     \* the *llm.UsageInfo the call returned, NilUsage if none
    body,         \* the HTTP response body: "none", "open", "closed"
    readClosed,   \* the body was read after it had been closed
    errBody,      \* the body of a non-200 response: "none" or one of ErrorBodies
    errMsg,       \* what the error message of a non-200 response carries
    tpc,          \* Z.AI GenerateText: "idle", "call", "done"
    treq,         \* Z.AI GenerateText: the vendor response and the options
    tres,         \* Z.AI GenerateText: the (text, usage, err) result
    pairIn,       \* two concurrent calls: the frames each call's transport carries
    pairPos,      \* two concurrent calls: how many of its frames each call has read
    pairOut,      \* two concurrent calls: the chunks each call has delivered
    pairCell,     \* two concurrent calls: the usage accumulators
    pairCancel,   \* two concurrent calls: each call's context has been cancelled
    pairRet,      \* two concurrent calls: each call's error result, "none" until it returns
    pairRetUsage, \* two concurrent calls: the usage each call returned
    rpc,          \* GenerateText: "idle", "build", "call", "done"
    ropts,        \* GenerateText: the options of the call (tools, schema, model)
    rwire,        \* GenerateText: the wire request that was built
    rresp,        \* GenerateText: what the vendor answered
    rres,         \* GenerateText: the (text, err) result
    rusage,       \* GenerateText: the usage record returned with the result
    rcalls,       \* GenerateText: the tool invocations in the vendor's answer
    rsurfaced,    \* GenerateText: the invocations the returned payload identifies
    xin,          \* extraction: the input text
    xstrict,      \* extraction: what ExtractJSONFromString returned
    xbest,        \* extraction: what ExtractValidJSON returned
    opc,          \* options: "idle", "apply", "composed"
    oopts,        \* options: the GenerationOptions record being built
    oapplied,     \* options: the options applied so far, in order
    oprompt,      \* options: the composed system instruction, a sequence of segments
    omode,        \* options: "text" for GenerateText, "stream" for GenerateTextStream
    othinking,    \* options: whether the model name contains "glm-4.7"
    owire,        \* options: the sampling fields of the built request
    sin,          \* schema: the SchemaProperty handed to the conversion
    sres,         \* schema: what ConvertSchemaToMap did
    sjson,        \* schema: what ConvertToJSONSchema did
    kin,          \* key: the environment and the files GetAPIKey reads
    kres,         \* key: what GetAPIKey returned
    uin,          \* usage: the usage counters in Claude's answer
    utext,        \* usage: the UsageInfo GenerateText builds from them
    ustream       \* usage: the UsageInfo GenerateTextStream builds from them

streamVars == <<provider, cap, pc, snd, buf, received, consumer, ctxDone, ret,
                closes, sendOnClosed, nread, lastFrame, visible, sentinelSeen,
                readErr, cancelEarly, streamEnded, usage, reported, retUsage, body,
                readClosed, errBody, errMsg>>
textVars == <<tpc, treq, tres>>
pairVars == <<pairIn, pairPos, pairOut, pairCell, pairCancel, pairRet, pairRetUsage>>
reqVars == <<rpc, ropts, rwire, rresp, rres, rusage, rcalls, rsurfaced>>
extractVars == <<xin, xstrict, xbest>>
optVars == <<opc, oopts, oapplied, oprompt, omode, othinking, owire>>
utilVars == <<sin, sres, sjson, kin, kres, uin, utext, ustream>>
nonStreamVars == <<textVars, pairVars, reqVars, extractVars, optVars, utilVars>>
vars == <<streamVars, textVars, pairVars, reqVars, extractVars, optVars, utilVars>>

(***************************************************************************)
(* Bounds                                                                  *)
(***************************************************************************)
MaxReads == 3
MaxCap == 1
MaxTextLen == 3
MaxPairFrames == 2
MaxTools == 2
MaxCalls == 2
MaxExtractLen == 4
MaxAnswerLen == 3
MaxOptions == 3
MaxProps == 2
MaxTokenCount == 2

(***************************************************************************)
(* Values                                                                  *)
(***************************************************************************)
Texts == {"a", "b"}
ReasoningTexts == {"r"}

Providers == {"ai302", "openai", "zai", "cerebras", "claude", "deepseek",
              "inception", "openrouter", "groq"}

\* Providers that go through the openai-go SDK's streaming iterator.
SdkProviders == Providers \ {"zai", "claude"}

\* llm.StreamChunk
StreamChunk(delta, isFinal, err) == [Delta |-> delta, IsFinal |-> isFinal, Err |-> err]
DeltaChunk(text) == StreamChunk(text, FALSE, "nil")
FinalChunk == StreamChunk("", TRUE, "nil")
ErrChunk(err) == StreamChunk("", FALSE, err)

\* llm.UsageInfo, and the usage object of a frame
UsageInfo(input, output, cacheHit) ==
    [InputTokens |-> input, OutputTokens |-> output, CacheHitTokens |-> cacheHit]
ZeroUsage == UsageInfo(0, 0, 0)
\* a nil *llm.UsageInfo, a frame without a usage object
NilUsage == [nil |-> TRUE]
UsageReports == {UsageInfo(10, 0, 0), UsageInfo(10, 5, 0), UsageInfo(0, 0, 3)}

\* A decoded frame; usage is NilUsage when the frame carries no usage object.
NoFrame == [kind |-> "none", content |-> "", reasoning |-> "", usage |-> NilUsage]
Frame(kind, content, reasoning) ==
    [kind |-> kind, content |-> content, reasoning |-> reasoning, usage |-> NilUsage]
UsageFrame(kind, u) == [kind |-> kind, content |-> "", reasoning |-> "", usage |-> u]

\* What one transport read can yield for each wire format.
SdkFrames ==
    {Frame("nochoice", "", "")} \cup {Frame("chunk", c, "") : c \in Texts \cup {""}}
    \cup {UsageFrame("nochoice", u) : u \in UsageReports}

ZaiFrames ==
    {Frame(k, "", "") : k \in {"blank", "done", "nondata", "malformed", "nochoice"}}
    \cup {Frame("chunk", c, r) : c \in Texts \cup {""}, r \in ReasoningTexts \cup {""}}
    \cup {UsageFrame("nochoice", u) : u \in UsageReports}

ClaudeFrames ==
    {Frame(k, "", "") : k \in {"blank", "event", "nondata", "malformed", "message_start",
                               "other_delta", "message_delta", "message_stop", "error",
                               "unknown"}}
    \cup {Frame("text_delta", c, "") : c \in Texts \cup {""}}
    \cup {UsageFrame(k, u) : k \in {"message_start", "message_delta"}, u \in UsageReports}

FramesOf(p) ==
    IF p = "zai" THEN ZaiFrames
    ELSE IF p = "claude" THEN ClaudeFrames
    ELSE SdkFrames

NoSend == [chunk |-> FinalChunk, guarded |-> FALSE, then |-> "none", err |-> "none",
           woken |-> FALSE]

Delivered == received \o buf

HasFinal(s) == \E i \in 1..Len(s) : s[i].IsFinal
Last(s) == s[Len(s)]

(***************************************************************************)
(* Text.  A string is a sequence of tokens: "J" is the fence opener        *)
(* ```json, "F" the bare fence ```, "_" one whitespace character, "1" a    *)
(* digit, "x" any other letter, "r" a letter of the reasoning text, and    *)
(* the four brackets stand for themselves.                                 *)
(***************************************************************************)
ContentTokens == {"J", "F", "{", "}", "[", "]", "_", "1", "x"}

Strs(tokens, n) == UNION {[1..k -> tokens] : k \in 0..n}

\* strings.TrimSpace
RECURSIVE TrimLeft(_)
TrimLeft(s) == IF s # <<>> /\ Head(s) = "_" THEN TrimLeft(Tail(s)) ELSE s

RECURSIVE TrimRight(_)
TrimRight(s) ==
    IF s # <<>> /\ s[Len(s)] = "_" THEN TrimRight(SubSeq(s, 1, Len(s) - 1)) ELSE s

TrimSpace(s) == TrimRight(TrimLeft(s))

\* The first index at or after i that holds no whitespace (Len(s) + 1 if none).
RECURSIVE SkipWs(_, _)
SkipWs(s, i) == IF i <= Len(s) /\ s[i] = "_" THEN SkipWs(s, i + 1) ELSE i

RECURSIVE SkipDigits(_, _)
SkipDigits(s, i) == IF i <= Len(s) /\ s[i] = "1" THEN SkipDigits(s, i + 1) ELSE i

\* The index after the JSON value that starts at i, 0 if none starts there.  With
\* these tokens a value is a number, an empty object, or an array of at most one value.
RECURSIVE ParseValue(_, _)
ParseValue(s, i) ==
    IF i > Len(s) THEN 0
    ELSE IF s[i] = "1" THEN SkipDigits(s, i)
    ELSE IF s[i] = "{" THEN
        LET j == SkipWs(s, i + 1)
        IN  IF j <= Len(s) /\ s[j] = "}" THEN j + 1 ELSE 0
    ELSE IF s[i] = "[" THEN
        LET j == SkipWs(s, i + 1)
        IN  IF j <= Len(s) /\ s[j] = "]" THEN j + 1
            ELSE LET k == ParseValue(s, j)
                     m == SkipWs(s, k)
                 IN  IF k # 0 /\ m <= Len(s) /\ s[m] = "]" THEN m + 1 ELSE 0
    ELSE 0

\* json.Unmarshal([]byte(s), &json.RawMessage{}) == nil
ValidJSON(s) ==
    LET k == ParseValue(s, SkipWs(s, 1))
    IN  k # 0 /\ SkipWs(s, k) = Len(s) + 1

\* The first index at or after i holding a token of set t (Len(s) + 1 if none).
RECURSIVE IndexFrom(_, _, _)
IndexFrom(s, t, i) == IF i <= Len(s) /\ s[i] \notin t THEN IndexFrom(s, t, i + 1) ELSE i

\* The first submatch of (?s)```json\s*(.*?)\s*``` in s, trimmed; ok is FALSE when
\* the expression does not match.  The closing ``` may be the start of a later ```json.
FencedJSON(s) ==
    LET i == IndexFrom(s, {"J"}, 1)
        j == IndexFrom(s, {"J", "F"}, i + 1)
    IN  IF i <= Len(s) /\ j <= Len(s)
        THEN [ok |-> TRUE, text |-> TrimSpace(SubSeq(s, i + 1, j - 1))]
        ELSE [ok |-> FALSE, text |-> <<>>]

\* utils.ExtractJSONFromString: (text, err == nil)
ExtractJSONFromString(s) ==
    LET m == FencedJSON(s)
        trimmed == TrimSpace(s)
    IN  IF m.ok /\ ValidJSON(m.text) THEN [text |-> m.text, ok |-> TRUE]
        ELSE IF /\ trimmed # <<>>
                /\ \/ Head(trimmed) = "{" /\ trimmed[Len(trimmed)] = "}"
                   \/ Head(trimmed) = "[" /\ trimmed[Len(trimmed)] = "]"
                /\ ValidJSON(trimmed)
            THEN [text |-> trimmed, ok |-> TRUE]
        ELSE [text |-> <<>>, ok |-> FALSE]

\* Text that may also hold single backticks (token "b"); a backtick token never
\* touches another backtick or a fence, so that a token sequence is one character
\* string.
WellFormedText(s) ==
    \A i \in 1..(Len(s) - 1) :
        ~(s[i] \in {"b", "F"} /\ s[i + 1] \in {"b", "F", "J"})

ExtractInputs == {s \in Strs(ContentTokens \cup {"b"}, MaxExtractLen) : WellFormedText(s)}

\* strings.Count(raw, backtick): a fence holds three backticks.
RECURSIVE BacktickCount(_)
BacktickCount(s) ==
    IF s = <<>> THEN 0
    ELSE (IF Head(s) \in {"J", "F"} THEN 3 ELSE IF Head(s) = "b" THEN 1 ELSE 0)
         + BacktickCount(Tail(s))

\* strings.ReplaceAll(raw, backtick, "")
RECURSIVE RemoveBackticks(_)
RemoveBackticks(s) ==
    IF s = <<>> THEN <<>>
    ELSE IF Head(s) = "b" THEN RemoveBackticks(Tail(s))
    ELSE <<Head(s)>> \o RemoveBackticks(Tail(s))

\* if backtickCount == 1 { raw = strings.ReplaceAll(raw, backtick, "") }
StripLoneBacktick(raw) == IF BacktickCount(raw) = 1 THEN RemoveBackticks(raw) ELSE raw

\* The fence stripping of ExtractValidJSON: only a text that starts with ```json (or
\* ```) and ends with ``` loses its fences; the rest is trimmed.
StripFence(raw) ==
    IF raw # <<>> /\ Head(raw) \in {"J", "F"} /\ raw[Len(raw)] = "F"
    THEN IF Len(raw) = 1 THEN <<>> ELSE TrimSpace(SubSeq(raw, 2, Len(raw) - 1))
    ELSE raw

\* strings.Index and strings.LastIndex of a token, 0 when it does not occur.
Index(s, t) == LET i == IndexFrom(s, {t}, 1) IN IF i > Len(s) THEN 0 ELSE i

RECURSIVE LastIndexFrom(_, _, _)
LastIndexFrom(s, t, i) == IF i >= 1 /\ s[i] # t THEN LastIndexFrom(s, t, i - 1) ELSE i

LastIndex(s, t) == LastIndexFrom(s, t, Len(s))

\* The first span ExtractValidJSON tries: braces when they start first and enclose the
\* brackets, brackets otherwise.  (start, end), start = 0 when there is no span.
OutermostSpan(raw) ==
    LET firstBrace == Index(raw, "{")
        firstBracket == Index(raw, "[")
        lastBrace == LastIndex(raw, "}")
        lastBracket == LastIndex(raw, "]")
        braces == /\ firstBrace # 0 /\ lastBrace # 0 /\ lastBrace > firstBrace
                  /\ \/ firstBracket = 0
                     \/ firstBrace < firstBracket /\ lastBrace > lastBracket
        brackets == /\ firstBracket # 0 /\ lastBracket # 0 /\ lastBracket > firstBracket
                    /\ (firstBrace = 0 \/ firstBracket < firstBrace \/ ~braces)
    IN  IF brackets THEN [start |-> firstBracket, end |-> lastBracket]
        ELSE IF braces THEN [start |-> firstBrace, end |-> lastBrace]
        ELSE [start |-> 0, end |-> 0]

\* The second span: from the first opening bracket of either type to the last closing
\* bracket of the same type.
FirstOpenSpan(raw) ==
    LET firstBrace == Index(raw, "{")
        firstBracket == Index(raw, "[")
        start == IF firstBracket # 0 /\ (firstBrace = 0 \/ firstBracket < firstBrace)
                 THEN firstBracket ELSE firstBrace
        last == IF start = 0 THEN 0
                ELSE IF raw[start] = "{" THEN LastIndex(raw, "}")
                ELSE LastIndex(raw, "]")
    IN  IF start # 0 /\ last > start THEN [start |-> start, end |-> last]
        ELSE [start |-> 0, end |-> 0]

\* utils.ExtractValidJSON
ExtractValidJSON(s) ==
    LET raw == StripFence(StripLoneBacktick(TrimSpace(s)))
        a == OutermostSpan(raw)
        b == FirstOpenSpan(raw)
    IN  IF a.start # 0 /\ ValidJSON(SubSeq(raw, a.start, a.end))
        THEN SubSeq(raw, a.start, a.end)
        ELSE IF b.start # 0 /\ ValidJSON(SubSeq(raw, b.start, b.end))
        THEN SubSeq(raw, b.start, b.end)
        ELSE raw

(***************************************************************************)
(* Z.AI GenerateText                                                       *)
(***************************************************************************)
ReasoningStrs == {<<>>, <<"r">>, <<"r", "r">>}
PromptTokens == {0, 3}
CompletionTokens == {0, 4}

\* What the HTTP exchange of one GenerateText call gives back, and the options.
\* outcome: "do" (the request failed), "read" (the body could not be read), "status"
\* (non-200), "parse" (the body is no ChatResponse), "ok".
Response(outcome, choices, content, reasoning, schema, prompt, completion) ==
    [outcome |-> outcome, choices |-> choices, content |-> content,
     reasoning |-> reasoning, schema |-> schema, prompt |-> prompt,
     completion |-> completion]

NoResponse(outcome) == Response(outcome, 0, <<>>, <<>>, FALSE, 0, 0)

Responses ==
    {NoResponse(o) : o \in {"do", "read", "status", "parse", "ok"}}
    \cup {Response("ok", 1, c, r, sch, pt, ct) :
            c \in Strs(ContentTokens, MaxTextLen), r \in ReasoningStrs,
            sch \in BOOLEAN, pt \in PromptTokens, ct \in CompletionTokens}

\* (text, usage, err)
Result(text, u, err) == [text |-> text, usage |-> u, err |-> err]
NoResult == Result(<<>>, "nil", "none")
Failure(err) == Result(<<>>, "nil", err)

\* ZaiGenerated falling back to reasoning_content when content is empty.
ZaiGeneratedWithFallback(message) ==
    IF message.content = <<>> THEN message.reasoning ELSE message.content

\* generated := message.Content
ZaiGenerated(message) == message.content

\* zai.Provider.GenerateText from the response on.
ZaiGenerateText(resp) ==
    IF resp.outcome = "do" THEN Failure("transport")
    ELSE IF resp.outcome = "read" THEN Failure("read")
    ELSE IF resp.outcome = "status" THEN Failure("api")
    ELSE IF resp.outcome = "parse" THEN Failure("parse")
    ELSE IF resp.choices = 0 THEN Failure("no content")
    ELSE
        LET generated == ZaiGenerated(resp)
            extracted == ExtractJSONFromString(generated)
        IN  IF generated = <<>> /\ resp.reasoning # <<>> THEN Failure("reasoning budget")
            ELSE IF generated = <<>> THEN Failure("no content")
            ELSE Result(IF resp.schema /\ extracted.ok THEN extracted.text ELSE generated,
                        [InputTokens |-> resp.prompt, OutputTokens |-> resp.completion],
                        "nil")

(***************************************************************************)
(* Per-provider policy, read off each provider's GenerateTextStream        *)
(***************************************************************************)

\* The fragment send is a select against ctx.Done().
GuardsDeltaSend(p) == p \in {"openai", "zai", "cerebras", "inception", "openrouter"}

\* A failed stream is reported on the channel as a StreamChunk{Err: err}.
SendsErrChunk(p) == p \in {"ai302", "deepseek", "groq", "zai", "claude"}

\* The worker sends StreamChunk{IsFinal: true} after the read loop.
SendsFinalAfterLoop(p) == p \in {"ai302", "deepseek", "zai"}

\* Claude polls ctx.Done() at the top of every loop iteration.
LoopPc(p) == IF p = "claude" THEN "loop" ELSE "read"

\* The frame's visible-content field, "" when the frame carries none.
VisibleText(f) == IF f.kind \in {"chunk", "text_delta"} THEN f.content ELSE ""

\* The vendor's terminal sentinel: "data: [DONE]" (Z.AI), message_stop (Claude).
IsSentinel(p, f) ==
    \/ p = "zai" /\ f.kind = "done"
    \/ p = "claude" /\ f.kind = "message_stop"

(***************************************************************************)
(* Usage accumulation                                                      *)
(***************************************************************************)

\* The usage a frame reports as the SDK's value struct: all zero when absent.
UsageValue(f) == IF f.usage = NilUsage THEN ZeroUsage ELSE f.usage

\* The accumulator is assigned after the fragment send, so a send that is cancelled
\* leaves it as it was.
FoldsAfterSend(p) == p \in {"openai", "inception", "openrouter", "cerebras", "zai"}

\* The worker's accumulator u after the decoded frame f.
Accumulate(p, u, f) ==
    LET r == UsageValue(f)
    IN  IF p \in {"ai302", "deepseek", "groq"} THEN
            UsageInfo(r.InputTokens, r.OutputTokens, 0)
        ELSE IF p = "openai" THEN r
        ELSE IF p \in {"inception", "openrouter"} THEN
            UsageInfo(r.InputTokens, r.OutputTokens, 0)
        ELSE IF p = "cerebras" THEN
            (IF r.InputTokens > 0 \/ r.OutputTokens > 0
             THEN UsageInfo(r.InputTokens, r.OutputTokens, 0) ELSE u)
        ELSE IF p = "zai" THEN
            (IF f.kind \in {"chunk", "nochoice"} /\ f.usage # NilUsage
             THEN UsageInfo(r.InputTokens, r.OutputTokens, 0) ELSE u)
        ELSE
            (IF f.kind \in {"message_start", "message_delta"} /\ f.usage # NilUsage
             THEN r ELSE u)

\* The usage the call returns together with err.
ReturnedUsage(p, err, u) ==
    IF p \in {"ai302", "deepseek", "groq", "zai"} /\ err # "nil" THEN NilUsage ELSE u

\* Per field, the report r laid over rep: a non-zero field of r replaces rep's.
Merge(rep, r) ==
    UsageInfo(IF r.InputTokens # 0 THEN r.InputTokens ELSE rep.InputTokens,
              IF r.OutputTokens # 0 THEN r.OutputTokens ELSE rep.OutputTokens,
              IF r.CacheHitTokens # 0 THEN r.CacheHitTokens ELSE rep.CacheHitTokens)

\* resp.Body.Close()
CloseBody(b) == IF b = "open" THEN "closed" ELSE b

(***************************************************************************)
(* Worker control: where the worker goes after a step                      *)
(***************************************************************************)

\* Ret with the close skipped on the cancellation return.
RetLeakOnCancel(err) ==
    [pc |-> "done", snd |-> NoSend, ret |-> err,
     closes |-> IF err = "ctx" THEN closes ELSE closes + 1,
     retUsage |-> ReturnedUsage(provider, err, usage), body |-> CloseBody(body)]

\* Ret without the deferred resp.Body.Close() on the cancellation return.
RetLeakBodyOnCancel(err) ==
    [pc |-> "done", snd |-> NoSend, ret |-> err, closes |-> closes + 1,
     retUsage |-> ReturnedUsage(provider, err, usage),
     body |-> IF err = "ctx" THEN body ELSE CloseBody(body)]

\* return usage, err, with the deferred resp.Body.Close() and close(outChan)
Ret(err) ==
    [pc |-> "done", snd |-> NoSend, ret |-> err, closes |-> closes + 1,
     retUsage |-> ReturnedUsage(provider, err, usage), body |-> CloseBody(body)]

\* outChan <- chunk, then either the next loop iteration or return err
SendThen(chunk, guarded, then, err) ==
    [pc |-> "send",
     snd |-> [chunk |-> chunk, guarded |-> guarded, then |-> then, err |-> err,
              woken |-> FALSE],
     ret |-> ret, closes |-> closes, retUsage |-> retUsage, body |-> body]

\* continue
Loop ==
    [pc |-> LoopPc(provider), snd |-> NoSend, ret |-> ret, closes |-> closes,
     retUsage |-> retUsage, body |-> body]

Apply(c) ==
    /\ pc' = c.pc
    /\ snd' = c.snd
    /\ ret' = c.ret
    /\ closes' = c.closes
    /\ retUsage' = c.retUsage
    /\ body' = c.body

\* The transport ended cleanly (or, for Z.AI, the loop was left by break).
OnStreamEnd(p) ==
    IF SendsFinalAfterLoop(p) THEN SendThen(FinalChunk, FALSE, "return", "nil")
    ELSE Ret("nil")

\* ZaiDeltaText falling back to reasoning_content when content is empty.
ZaiDeltaTextWithFallback(f) == IF f.content = "" THEN f.reasoning ELSE f.content

\* Z.AI: the text a decoded chunk contributes to the output.
ZaiDeltaText(f) == f.content

\* The transport read failed with err.
OnStreamErr(p, err) ==
    IF SendsErrChunk(p) THEN SendThen(ErrChunk(err), FALSE, "return", err)
    ELSE Ret(err)

\* OnUndecodable ending the stream with an error instead of skipping the frame.
OnUndecodableAborts == OnStreamErr(provider, "stream")

\* json.Unmarshal of the frame's payload failed: log and continue.
OnUndecodable == Loop

\* What the worker does with a decoded frame.
OnFrame(p, f) ==
    IF f.kind = "malformed" THEN OnUndecodable
    ELSE IF p = "zai" THEN
        IF f.kind = "done" THEN OnStreamEnd(p)
        ELSE IF f.kind = "chunk" /\ ZaiDeltaText(f) # ""
            THEN SendThen(DeltaChunk(ZaiDeltaText(f)), TRUE, "loop", "none")
        ELSE Loop
    ELSE IF p = "claude" THEN
        IF f.kind = "text_delta" THEN SendThen(DeltaChunk(f.content), FALSE, "loop", "none")
        ELSE IF f.kind = "message_stop" THEN SendThen(FinalChunk, FALSE, "loop", "none")
        ELSE Loop
    ELSE
        IF f.kind = "chunk" /\ f.content # ""
            THEN SendThen(DeltaChunk(f.content), GuardsDeltaSend(p), "loop", "none")
        ELSE Loop

\* The error a failing read or request reports.
TransportErr == IF ctxDone THEN "ctx" ELSE "stream"

\* CanSend for a channel that takes a chunk only into its buffer.
CanSendBufferOnly == Len(buf) < cap

\* The channel accepts a send: there is room in the buffer, or the channel is
\* unbuffered and the consumer is receiving.
CanSend == Len(buf) < cap \/ (cap = 0 /\ consumer = "recv")

(***************************************************************************)
(* Initial state                                                           *)
(***************************************************************************)
(***************************************************************************)
(* GenerateText of every provider: the request it builds from the options  *)
(* and the result it makes of the vendor's answer                          *)
(***************************************************************************)

\* llm.ToolDefinition: its name and whether InputSchema is non-nil.
Tool(name, hasSchema) == [name |-> name, hasSchema |-> hasSchema]
ToolPool == {Tool("t1", TRUE), Tool("t2", TRUE), Tool("t3", FALSE)}

\* llm.GenerationOptions: Tools, ResponseSchema != nil, and whether Model is one of
\* the models OpenRouter's applyTools accepts.
Options(tools, schema, supported) ==
    [tools |-> tools, schema |-> schema, supported |-> supported]
NoOptions == Options(<<>>, FALSE, TRUE)

\* The request on the wire: the native tool list (tool names), the native
\* structured-output directive ("none", "json_schema", "json_object"), and whether the
\* schema was written into the prompt instead.
Wire(tools, structured, inPrompt) ==
    [tools |-> tools, structured |-> structured, inPrompt |-> inPrompt]
NoWire == Wire(<<>>, "none", FALSE)

\* What building the request gives: the wire request, or a failure before any request.
Built(wire) == [err |-> "nil", wire |-> wire]
BuildPanics == [err |-> "panic", wire |-> NoWire]

\* Providers whose GenerateText translates options.Tools into a native tool list.
TranslatesTools(p) == p \in {"openai", "inception", "openrouter", "claude"}

\* The tool loop of the OpenAI-compatible providers: a tool with a nil InputSchema is
\* logged and skipped (continue), every other tool is appended in order.
RECURSIVE SkipNilSchema(_)
SkipNilSchema(tools) ==
    IF tools = <<>> THEN <<>>
    ELSE IF ~Head(tools).hasSchema THEN SkipNilSchema(Tail(tools))
    ELSE <<Head(tools).name>> \o SkipNilSchema(Tail(tools))

\* Claude's tool loop: ConvertSchemaToMap(tool.InputSchema) reads property.Type with no
\* nil check, so a tool with a nil InputSchema panics; otherwise every tool is appended.
ClaudeTools(tools) ==
    IF \E i \in 1..Len(tools) : ~tools[i].hasSchema THEN BuildPanics
    ELSE Built(Wire([i \in 1..Len(tools) |-> tools[i].name], "none", FALSE))

\* The else-if branch after the tool branch applying the schema whatever the tools are.
SchemaDirectiveAlways(o) == IF o.schema THEN "json_schema" ELSE "none"

\* if len(options.Tools) > 0 { tools } else if options.ResponseSchema != nil
\* { response_format json_schema }: the native directive of openai, inception, openrouter.
SchemaDirective(o) ==
    IF o.tools # <<>> THEN "none" ELSE IF o.schema THEN "json_schema" ELSE "none"

\* applyTools of OpenRouter sending the tool list whatever the model is.
OpenRouterToolsUngated(o) == SkipNilSchema(o.tools)

\* openrouter applyTools: returns before setting params.Tools when the model is not in
\* the supported list.
OpenRouterTools(o) == IF o.supported THEN SkipNilSchema(o.tools) ELSE <<>>

\* The request each provider's GenerateText builds.
BuildRequest(p, o) ==
    IF p \in {"openai", "inception"}
    THEN Built(Wire(SkipNilSchema(o.tools), SchemaDirective(o), FALSE))
    ELSE IF p = "openrouter"
    THEN Built(Wire(OpenRouterTools(o), SchemaDirective(o), FALSE))
    ELSE IF p = "claude"
    THEN IF o.tools # <<>> THEN ClaudeTools(o.tools)
         ELSE Built(Wire(<<>>, "none", o.schema))
    ELSE IF p = "zai"
    THEN Built(Wire(<<>>, IF o.schema THEN "json_object" ELSE "none", o.schema))
    ELSE Built(Wire(<<>>, "none", o.schema))

\* The vendor's answer: an API failure, or a decoded body with its number of
\* choices (text blocks for Claude), the content, the reasoning, and whether it
\* carries a tool invocation.
Answer(outcome, choices, content, reasoning, toolCall) ==
    [outcome |-> outcome, choices |-> choices, content |-> content,
     reasoning |-> reasoning, toolCall |-> toolCall]
NoAnswer == Answer("none", 0, <<>>, <<>>, FALSE)

\* The texts a model generates: prose, whitespace, arrays and fences.
AnswerTexts == Strs({"x", "_", "[", "]", "J", "F"}, MaxAnswerLen)

\* The answers a request can get: a tool invocation only when a tool list was sent,
\* reasoning only from Z.AI.
Answers(p, w) ==
    {Answer("status", 0, <<>>, <<>>, FALSE), Answer("ok", 0, <<>>, <<>>, FALSE)}
    \cup {Answer("ok", 1, c, r, FALSE) :
            c \in AnswerTexts,
            r \in IF p = "zai" THEN {<<>>, <<"r">>} ELSE {<<>>}}
    \cup {Answer("ok", 1, c, <<>>, TRUE) :
            c \in IF w.tools # <<>> THEN {<<>>, <<"x">>} ELSE {}}

\* The arguments of the first tool call, or "TOOL_CALL::" + json for Claude.
ToolCallText == <<"{", "}">>

\* (text, err) of a GenerateText call.
TextResult(text, err) == [text |-> text, err |-> err]
NoTextResult == TextResult(<<>>, "none")

\* Extracted dropping the text when no JSON can be extracted from it.
ExtractedOrNothing(text, wanted) ==
    LET e == ExtractJSONFromString(text)
    IN  IF wanted THEN e.text ELSE text

\* The schema post-processing of the prompt-only providers: the extracted JSON when
\* a schema was asked for and extraction succeeds, the text as generated otherwise.
Extracted(text, wanted) ==
    LET e == ExtractJSONFromString(text)
    IN  IF wanted /\ e.ok THEN e.text ELSE text

\* openai, inception, openrouter from the response on: no choice returns ("", nil, nil),
\* a tool call returns its arguments, otherwise the content is returned as it is.
SdkGenerateText(r) ==
    IF r.outcome # "ok" THEN TextResult(<<>>, "api")
    ELSE IF r.choices = 0 THEN TextResult(<<>>, "nil")
    ELSE IF r.toolCall THEN TextResult(ToolCallText, "nil")
    ELSE TextResult(r.content, "nil")

\* ai302, deepseek, groq, cerebras from the response on.
HttpGenerateText(o, r) ==
    IF r.outcome # "ok" THEN TextResult(<<>>, "api")
    ELSE IF r.choices = 0 \/ r.content = <<>> THEN TextResult(<<>>, "no content")
    ELSE TextResult(Extracted(r.content, o.schema), "nil")

\* claude from the response on.
ClaudeGenerateText(o, r) ==
    IF r.outcome # "ok" THEN TextResult(<<>>, "api")
    ELSE IF r.toolCall THEN TextResult(ToolCallText, "nil")
    ELSE LET generatedText == IF r.choices = 0 THEN <<>> ELSE r.content
         IN  IF generatedText = <<>> THEN TextResult(<<>>, "no content")
             ELSE TextResult(Extracted(generatedText, o.tools = <<>> /\ o.schema), "nil")

\* The result each provider's GenerateText makes of the vendor's answer.
HandleResponse(p, o, r) ==
    IF p \in {"openai", "inception", "openrouter"} THEN SdkGenerateText(r)
    ELSE IF p = "claude" THEN ClaudeGenerateText(o, r)
    ELSE IF p = "zai"
    THEN LET z == ZaiGenerateText(Response(IF r.outcome = "ok" THEN "ok" ELSE "status",
                                           r.choices, r.content, r.reasoning,
                                           o.schema, 0, 0))
         IN  TextResult(z.text, z.err)
    ELSE HttpGenerateText(o, r)

\* The usage the vendor reports with an answer.
VendorUsage == UsageInfo(3, 4, 0)

\* The usage record GenerateText returns next to the result res: nil with every error
\* and with the ("", nil, nil) of the SDK providers, the vendor's counts otherwise.
TextUsage(p, r, res) ==
    IF res.err # "nil" THEN NilUsage
    ELSE IF p \in {"openai", "inception", "openrouter"} /\ r.choices = 0 THEN NilUsage
    ELSE VendorUsage

\* One tool invocation in the vendor's answer: tool name and argument payload.
Invocation(name, args) == [name |-> name, args |-> args]
InvocationPool == {Invocation("t1", "a1"), Invocation("t2", "a2")}

\* The invocation lists of an answer that signals tool use: one or more invocations.
Invocations == Strs(InvocationPool, MaxCalls) \ {<<>>}

\* What the returned payload identifies of each invocation it surfaces.  Claude's
\* extractToolCallsJSON marshals every tool_use block with id, name and input.
ClaudeToolPayload(calls) == calls

\* The SDK providers return ToolCalls[0].Function.Arguments: the arguments of the
\* first call, without its name.
SdkToolPayload(calls) == <<Invocation("", calls[1].args)>>

ToolPayload(p, calls) ==
    IF calls = <<>> THEN <<>>
    ELSE IF p = "claude" THEN ClaudeToolPayload(calls)
    ELSE SdkToolPayload(calls)

(***************************************************************************)
(* GenerationOptions, the With* options, and the system instruction each   *)
(* provider composes from the options                                      *)
(***************************************************************************)

\* The zero value of llm.GenerationOptions.  Pointers are "nil" or the value, strings
\* are "" when unset, the schema is "nil" or its name, lists are sequences.
GenerationOptions ==
    [Temperature |-> "nil", MaxTokens |-> "nil", TopK |-> "nil", TopP |-> "nil",
     Language |-> "", System |-> "", ResponseFormat |-> "", ResponseSchema |-> "nil",
     Tools |-> <<>>, SystemBlocks |-> <<>>, UseCache |-> "false",
     AllowSexualContent |-> "false"]

Helpful == "You are a helpful assistant."

\* The options each provider's GenerateText starts from.
Defaults(p) ==
    IF p \in {"ai302", "deepseek", "groq"}
    THEN [GenerationOptions EXCEPT !.Temperature = "0.7", !.MaxTokens = "4096",
                                   !.System = Helpful]
    ELSE IF p = "cerebras"
    THEN [GenerationOptions EXCEPT !.Temperature = "0.6", !.MaxTokens = "40000",
                                   !.TopP = "0.95", !.System = Helpful]
    ELSE IF p = "claude"
    THEN [GenerationOptions EXCEPT !.Temperature = "0.7", !.MaxTokens = "4096"]
    ELSE IF p = "zai"
    THEN GenerationOptions
    ELSE [GenerationOptions EXCEPT !.Temperature = "0.7", !.MaxTokens = "2048"]

\* The options each provider's GenerateTextStream starts from.
StreamDefaults(p) ==
    IF p = "zai"
    THEN [GenerationOptions EXCEPT !.Temperature = "0.7", !.MaxTokens = "4096",
                                   !.System = Helpful]
    ELSE IF p \in {"openai", "inception", "openrouter"}
    THEN [GenerationOptions EXCEPT !.Temperature = "0.7", !.MaxTokens = "1024"]
    ELSE Defaults(p)

\* A GenerationOption: the field its With* function assigns, and the value, a text for
\* the scalar fields and a list for Tools and SystemBlocks.
Option(field, text, list) == [field |-> field, text |-> text, list |-> list]

OptionPool ==
    {Option("Temperature", "0.2", <<>>), Option("MaxTokens", "100", <<>>),
     Option("MaxTokens", "20000", <<>>),
     Option("TopK", "40", <<>>), Option("TopP", "0.5", <<>>),
     Option("System", "sys", <<>>), Option("ResponseFormat", "json", <<>>),
     Option("ResponseSchema", "schema", <<>>),
     Option("UseCache", "true", <<>>), Option("AllowSexualContent", "true", <<>>)}
    \cup {Option("Language", l, <<>>) : l \in {"en", "ko", "ja", "xx"}}
    \cup {Option("Tools", "", t) : t \in {<<"t1">>, <<"t2", "t3">>}}
    \cup {Option("SystemBlocks", "", b) : b \in {<<"b1">>, <<"b2", "b3">>}}

\* WithTools appending to the tools already set.
WithToolsAppending(o, tools) == [o EXCEPT !.Tools = @ \o tools]

WithTools(o, tools) == [o EXCEPT !.Tools = tools]
WithSystemBlocks(o, blocks) == [o EXCEPT !.SystemBlocks = blocks]

\* opt(options): every With* function assigns its argument to its one field, the two
\* list options included.
ApplyOption(o, opt) ==
    IF opt.field = "Tools" THEN WithTools(o, opt.list)
    ELSE IF opt.field = "SystemBlocks" THEN WithSystemBlocks(o, opt.list)
    ELSE [o EXCEPT ![opt.field] = opt.text]

\* int64(*options.MaxTokens): the number a token count stands for.
Int64 ==
    ("100" :> 100) @@ ("1024" :> 1024) @@ ("2048" :> 2048) @@ ("4096" :> 4096)
    @@ ("16384" :> 16384) @@ ("20000" :> 20000) @@ ("40000" :> 40000)

\* minTokens of Z.AI's thinking mode.
ThinkingMinTokens == 16384

\* SamplingParams that sends the caller's max_tokens in thinking mode as well.
SamplingParamsNoFloor(p, thinking, o) ==
    [Temperature |-> o.Temperature, TopP |-> o.TopP,
     TopK |-> IF p = "claude" THEN o.TopK ELSE "nil", MaxTokens |-> o.MaxTokens,
     Thinking |-> IF p = "zai" /\ thinking THEN "enabled" ELSE "nil"]

\* SamplingParams that sends a temperature of 1.0 when the option is unset.
SamplingParamsFilling(p, thinking, o) ==
    [Temperature |-> IF o.Temperature = "nil" THEN "1.0" ELSE o.Temperature,
     TopP |-> o.TopP, TopK |-> IF p = "claude" THEN o.TopK ELSE "nil",
     MaxTokens |-> o.MaxTokens, Thinking |-> "nil"]

\* The sampling fields of the request a provider builds from the options, "nil" for a
\* field that is left out.  Every provider copies Temperature, TopP and MaxTokens when
\* set; only Claude has a top_k field; Z.AI turns thinking on for a model name that
\* contains "glm-4.7" and then sends at least ThinkingMinTokens as max_tokens.
SamplingParams(p, thinking, o) ==
    [Temperature |-> o.Temperature, TopP |-> o.TopP,
     TopK |-> IF p = "claude" THEN o.TopK ELSE "nil",
     MaxTokens |-> IF p = "zai" /\ thinking
                      /\ (o.MaxTokens = "nil" \/ Int64[o.MaxTokens] < ThinkingMinTokens)
                   THEN "16384" ELSE o.MaxTokens,
     Thinking |-> IF p = "zai" /\ thinking THEN "enabled" ELSE "nil"]

\* utils.GetLangName: the name of a known code, the code itself otherwise.
LanguageNames == [en |-> "English", ko |-> "Korean", ja |-> "Japanese"]
GetLangName(code) ==
    IF code \in DOMAIN LanguageNames THEN LanguageNames[code] ELSE code

\* One piece of a composed system instruction.  kind: "block", "system", "language",
\* "schema", "format", "json rules"; for "language" the text is how the directive names
\* the language.
Segment(kind, text) == [kind |-> kind, text |-> text]

BlockSegments(o) == [i \in 1..Len(o.SystemBlocks) |-> Segment("block", o.SystemBlocks[i])]
SystemSegment(o) == IF o.System # "" THEN <<Segment("system", o.System)>> ELSE <<>>
SchemaSegment(o) ==
    IF o.ResponseSchema # "nil" THEN <<Segment("schema", o.ResponseSchema)>> ELSE <<>>

\* "Please respond in %s language." with GetLangName, for every language but "en".
NamedLanguageSegment(o) ==
    IF o.Language # "" /\ o.Language # "en"
    THEN <<Segment("language", GetLangName(o.Language))>> ELSE <<>>

\* The same directive, emitted for "en" as well (ai302, zai).
AnyLanguageSegment(o) ==
    IF o.Language # "" THEN <<Segment("language", GetLangName(o.Language))>> ELSE <<>>

\* openai, inception, openrouter: a Korean sentence that names no language for "ko",
\* "Please write in " + code otherwise.
RawLanguageSegment(o) ==
    IF o.Language = "" THEN <<>>
    ELSE IF o.Language = "ko" THEN <<Segment("language", "that language")>>
    ELSE <<Segment("language", o.Language)>>

\* if options.ResponseFormat != "" { "Response format: %s" }
FormatSegment(o) ==
    IF o.ResponseFormat # "" THEN <<Segment("format", o.ResponseFormat)>> ELSE <<>>

\* zai: the strict JSON rules after the format directive, when JSON is asked for with
\* no schema.
JsonRulesSegment(o) ==
    IF o.ResponseFormat = "json" /\ o.ResponseSchema = "nil"
    THEN <<Segment("json rules", "")>> ELSE <<>>

\* The system instruction each provider's GenerateText composes.
ComposeSystemPrompt(p, o) ==
    IF p = "ai302"
    THEN BlockSegments(o) \o SystemSegment(o) \o AnyLanguageSegment(o)
         \o SchemaSegment(o) \o FormatSegment(o)
    ELSE IF p \in {"deepseek", "cerebras"}
    THEN BlockSegments(o) \o SystemSegment(o) \o NamedLanguageSegment(o)
         \o SchemaSegment(o) \o FormatSegment(o)
    ELSE IF p = "groq"
    THEN BlockSegments(o) \o SystemSegment(o) \o NamedLanguageSegment(o)
         \o SchemaSegment(o)
    ELSE IF p = "zai"
    THEN BlockSegments(o) \o SystemSegment(o) \o AnyLanguageSegment(o)
         \o SchemaSegment(o) \o FormatSegment(o) \o JsonRulesSegment(o)
    ELSE IF p = "claude"
    THEN BlockSegments(o) \o SystemSegment(o) \o NamedLanguageSegment(o)
         \o (IF o.Tools = <<>> THEN SchemaSegment(o) ELSE <<>>)
    ELSE RawLanguageSegment(o)
         \o (IF o.SystemBlocks # <<>> THEN BlockSegments(o) ELSE SystemSegment(o))

\* Not yet extracted, and the returns of the two extractors.
NotExtracted == [done |-> FALSE, ok |-> FALSE, text |-> <<>>]
StrictExtraction(e) == [done |-> TRUE, ok |-> e.ok, text |-> e.text]
BestExtraction(text) == [done |-> TRUE, ok |-> TRUE, text |-> text]

\* The bodies a non-200 response can have: {"code": .., "message": ..} at the top
\* level ("envelope"), {"error": {.., "message": ..}} ("wrapped"), any other text
\* ("other"), and a body whose read fails ("unreadable").
ErrorBodies == {"envelope", "wrapped", "other", "unreadable"}

\* The error envelopes a provider's decoding recognises.
RecognisedEnvelopes(p) == IF p = "zai" THEN {"envelope", "wrapped"} ELSE {"wrapped"}

\* StatusMessage with the raw body in every message.
StatusMessageAlwaysRaw(p, k) == "raw body"

\* What the error message of a non-200 streaming response carries: the vendor's code or
\* type and message, the raw body text, or only the status code.  Z.AI ignores the
\* error of io.ReadAll and uses what was read; Claude drops the body when the read
\* fails.
StatusMessage(p, k) ==
    IF p = "claude" /\ k = "unreadable" THEN "status code"
    ELSE IF k \in RecognisedEnvelopes(p) THEN "code and message"
    ELSE "raw body"

\* The two calls of the concurrent pair
Calls == {1, 2}

(***************************************************************************)
(* Schema conversion                                                       *)
(***************************************************************************)

\* A nil *SchemaProperty; also the nil map and the empty text a failed conversion
\* returns.
NilSchema == [nil |-> TRUE]

\* llm.SchemaProperty, the fields the conversion recurses on: Type, Properties
\* (hasProps is FALSE for a nil map; props are the entries, the keys left out) and
\* Items.  The map ConvertSchemaToMap builds has the same shape.
SchemaProperty(type, hasProps, props, items) ==
    [type |-> type, hasProps |-> hasProps, props |-> props, items |-> items]

\* The objects and arrays whose properties and items are taken from children.
SchemaNodes(children) ==
    {SchemaProperty("object", TRUE, ps, NilSchema) : ps \in Strs(children, MaxProps)}
    \cup {SchemaProperty("array", FALSE, <<>>, it) : it \in children}

\* Schemas of up to three levels; a nil may stand for any node below the root.
Schemas ==
    LET leaves == {NilSchema, SchemaProperty("string", FALSE, <<>>, NilSchema)}
    IN  SchemaNodes(SchemaNodes(leaves) \cup leaves)

\* What a conversion did: "ok" with the map, "error" with a nil map, or "panic", the
\* run-time error of reading a field through a nil pointer; "none" before the call.
Conversion(outcome, map) == [outcome |-> outcome, map |-> map]

\* llm.ConvertSchemaToMap.  property.Type is read first, with no nil test; a failure
\* of a nested conversion is handed up with a nil map.
RECURSIVE ConvertSchemaToMap(_)
ConvertSchemaToMap(property) ==
    IF property = NilSchema THEN Conversion("panic", NilSchema)
    ELSE LET subs == [i \in 1..Len(property.props) |->
                        ConvertSchemaToMap(property.props[i])]
             failed == {i \in 1..Len(property.props) : subs[i].outcome # "ok"}
             item == IF property.items = NilSchema THEN Conversion("ok", NilSchema)
                     ELSE ConvertSchemaToMap(property.items)
         IN  IF failed # {}
             THEN Conversion(subs[CHOOSE i \in failed : TRUE].outcome, NilSchema)
             ELSE IF item.outcome # "ok" THEN Conversion(item.outcome, NilSchema)
             ELSE Conversion("ok",
                     SchemaProperty(property.type, property.hasProps,
                                    [i \in 1..Len(property.props) |-> subs[i].map],
                                    item.map))

\* llm.ConvertToJSONSchema: the JSON text of the map, or the failure of the conversion.
ConvertToJSONSchema(property) ==
    LET converted == ConvertSchemaToMap(property)
    IN  IF converted.outcome # "ok" THEN Conversion(converted.outcome, NilSchema)
        ELSE Conversion("ok", [json |-> converted.map])

(***************************************************************************)
(* Key lookup and Claude's usage counters                                  *)
(***************************************************************************)

\* What GetAPIKey reads: the provider's well-known environment variable and the
\* generic PROVIDER_API_KEY one, whether ~/.holon/providers.yaml has an entry for
\* the provider, the entry's api_key_file ("none" when empty, "unreadable" or
\* "readable") and the text of that file, its api_key, and the environment variable
\* the api_key names.  Keys and texts are token sequences: "_" is whitespace and "$"
\* is a ${VAR} reference.
KeySetup(envKey, genericKey, configured, keyFile, fileText, apiKey, varValue) ==
    [envKey |-> envKey, genericKey |-> genericKey, configured |-> configured,
     keyFile |-> keyFile, fileText |-> fileText, apiKey |-> apiKey,
     varValue |-> varValue]

KeySetups ==
    {KeySetup(e, g, c, f, t, a, v) :
        e \in {<<>>, <<"e">>}, g \in {<<>>, <<"g">>}, c \in BOOLEAN,
        f \in {"none", "unreadable", "readable"}, t \in {<<>>, <<"_">>, <<"f", "_">>},
        a \in {<<>>, <<"y">>, <<"$">>}, v \in {<<>>, <<"v">>}}

KeyResult(done, key) == [done |-> done, key |-> key]

\* testutil.expandEnvVars: every ${VAR} is replaced by the value of VAR.
RECURSIVE expandEnvVars(_, _)
expandEnvVars(text, varValue) ==
    IF text = <<>> THEN <<>>
    ELSE (IF Head(text) = "$" THEN varValue ELSE <<Head(text)>>)
         \o expandEnvVars(Tail(text), varValue)

\* testutil.GetAPIKey: the well-known environment variable, the generic one, then the
\* provider's entry of providers.yaml: the key file when it is named and can be read,
\* the api_key otherwise.
GetAPIKey(k) ==
    IF k.envKey # <<>> THEN k.envKey
    ELSE IF k.genericKey # <<>> THEN k.genericKey
    ELSE IF ~k.configured THEN <<>>
    ELSE IF k.keyFile = "readable" THEN TrimSpace(k.fileText)
    ELSE expandEnvVars(k.apiKey, k.varValue)

\* The usage object of a Claude answer.
ClaudeUsage(input, output, create, read) ==
    [input_tokens |-> input, output_tokens |-> output,
     cache_creation_input_tokens |-> create, cache_read_input_tokens |-> read]

\* llm.UsageInfo with its three cache counters.
CacheUsageInfo(input, output, create, hit, miss) ==
    [InputTokens |-> input, OutputTokens |-> output, CacheCreateTokens |-> create,
     CacheHitTokens |-> hit, CacheMissTokens |-> miss]

\* Claude GenerateText: the UsageInfo built from the answer's usage object.
ClaudeTextUsage(v) ==
    CacheUsageInfo(v.input_tokens, v.output_tokens, 0, v.cache_read_input_tokens,
                   v.cache_creation_input_tokens)

\* Claude GenerateTextStream: the UsageInfo after a message_start or message_delta
\* event that carries the usage object.
ClaudeStreamUsage(v) ==
    CacheUsageInfo(v.input_tokens, v.output_tokens, v.cache_creation_input_tokens,
                   v.cache_read_input_tokens, 0)

\* The variables of one group before any action of the group: each specification
\* starts the groups it does not drive in this state and leaves them there.
Idle(group) ==
    CASE group = "stream" ->
            /\ cap = 0
            /\ pc = "start"
            /\ snd = NoSend
            /\ buf = <<>>
            /\ received = <<>>
            /\ consumer = "recv"
            /\ ctxDone = FALSE
            /\ ret = "none"
            /\ closes = 0
            /\ sendOnClosed = FALSE
            /\ nread = 0
            /\ lastFrame = NoFrame
            /\ visible = <<>>
            /\ sentinelSeen = FALSE
            /\ readErr = "nil"
            /\ cancelEarly = FALSE
            /\ streamEnded = FALSE
            /\ usage = NilUsage
            /\ reported = ZeroUsage
            /\ retUsage = NilUsage
            /\ body = "none"
            /\ readClosed = FALSE
            /\ errBody = "none"
            /\ errMsg = "none"
      [] group = "text" ->
            /\ tpc = "idle"
            /\ treq = NoResponse("ok")
            /\ tres = NoResult
      [] group = "pair" ->
            /\ pairIn = [i \in Calls |-> <<>>]
            /\ pairPos = [i \in Calls |-> 0]
            /\ pairOut = [i \in Calls |-> <<>>]
            /\ pairCell = [i \in Calls |-> NilUsage]
            /\ pairCancel = [i \in Calls |-> FALSE]
            /\ pairRet = [i \in Calls |-> "idle"]
            /\ pairRetUsage = [i \in Calls |-> NilUsage]
      [] group = "req" ->
            /\ rpc = "idle"
            /\ ropts = NoOptions
            /\ rwire = NoWire
            /\ rresp = NoAnswer
            /\ rres = NoTextResult
            /\ rusage = NilUsage
            /\ rcalls = <<>>
            /\ rsurfaced = <<>>
      [] group = "extract" ->
            /\ xin = <<>>
            /\ xstrict = NotExtracted
            /\ xbest = NotExtracted
      [] group = "opt" ->
            /\ opc = "idle"
            /\ oopts = Defaults("zai")
            /\ oapplied = <<>>
            /\ oprompt = <<>>
            /\ omode = "text"
            /\ othinking = FALSE
            /\ owire = SamplingParams("zai", FALSE, GenerationOptions)
      [] group = "util" ->
            /\ sin = NilSchema
            /\ sres = Conversion("none", NilSchema)
            /\ sjson = Conversion("none", NilSchema)
            /\ kin = KeySetup(<<>>, <<>>, FALSE, "none", <<>>, <<>>, <<>>)
            /\ kres = KeyResult(FALSE, <<>>)
            /\ uin = ClaudeUsage(0, 0, 0, 0)
            /\ utext = NilUsage
            /\ ustream = NilUsage

OthersIdle(group) ==
    \A other \in {"stream", "text", "pair", "req", "extract", "opt", "util"} \ {group} :
        Idle(other)

Init ==
    /\ provider \in Providers
    /\ cap \in 0..MaxCap
    /\ pc = "start"
    /\ snd = NoSend
    /\ buf = <<>>
    /\ received = <<>>
    /\ consumer = "recv"
    /\ ctxDone = FALSE
    /\ ret = "none"
    /\ closes = 0
    /\ sendOnClosed = FALSE
    /\ nread = 0
    /\ lastFrame = NoFrame
    /\ visible = <<>>
    /\ sentinelSeen = FALSE
    /\ readErr = "nil"
    /\ cancelEarly = FALSE
    /\ streamEnded = FALSE
    /\ usage = NilUsage
    /\ reported = ZeroUsage
    /\ retUsage = NilUsage
    /\ body = "none"
    /\ readClosed = FALSE
    /\ errBody = "none"
    /\ errMsg = "none"
    /\ OthersIdle("stream")

(***************************************************************************)
(* The worker                                                              *)
(***************************************************************************)

\* From entry to the first read: build the request, send it, check the status.
Connect ==
    /\ pc = "start"
    /\ \E o \in {"ok", "build", "do", "status"} :
        LET c == IF provider \in SdkProviders THEN
                     (IF ctxDone THEN OnStreamErr(provider, "ctx") ELSE Loop)
                 ELSE IF o = "ok" THEN Loop
                 ELSE IF o = "build" THEN
                     (IF provider = "zai" THEN Ret("build")
                      ELSE SendThen(ErrChunk("build"), FALSE, "return", "build"))
                 ELSE IF o = "do" THEN
                     (IF provider = "claude" /\ ctxDone THEN Ret("ctx")
                      ELSE SendThen(ErrChunk(TransportErr), FALSE, "return", TransportErr))
                 ELSE SendThen(ErrChunk("api"), FALSE, "return", "api")
            b == IF provider \in SdkProviders \/ o \in {"build", "do"} THEN "none"
                 ELSE IF o = "status" /\ provider = "claude" THEN "closed"
                 ELSE "open"
        IN  /\ provider \in SdkProviders => o = "ok"
            /\ (ctxDone /\ provider \notin SdkProviders) => o \in {"build", "do"}
            /\ Apply([c EXCEPT !.body = b])
            /\ streamEnded' = (c.pc # LoopPc(provider))
            /\ usage' = IF provider = "claude" /\ o = "ok" THEN ZeroUsage ELSE usage
            /\ \E k \in IF o = "status" THEN ErrorBodies ELSE {"none"} :
                /\ errBody' = k
                /\ errMsg' = IF o = "status" THEN StatusMessage(provider, k) ELSE "none"
    /\ UNCHANGED <<provider, cap, buf, received, consumer, ctxDone, sendOnClosed, nread,
                   lastFrame, visible, sentinelSeen, readErr, cancelEarly, reported,
                   readClosed, nonStreamVars>>

\* Claude: select { case <-ctx.Done(): return usage, ctx.Err(); default: }
CheckCtx ==
    /\ pc = "loop"
    /\ IF ctxDone THEN Apply(Ret("ctx")) /\ streamEnded' = TRUE
       ELSE pc' = "read" /\ UNCHANGED <<snd, ret, closes, streamEnded, retUsage, body>>
    /\ UNCHANGED <<provider, cap, buf, received, consumer, ctxDone, sendOnClosed, nread,
                   lastFrame, visible, sentinelSeen, readErr, cancelEarly, usage,
                   reported, readClosed, errBody, errMsg,
                   nonStreamVars>>

\* The read returns a frame; the worker decodes it and acts on it.  A read may return
\* a frame after the cancellation: the bytes were buffered before it.
ReadFrame ==
    /\ pc = "read"
    /\ nread < MaxReads
    /\ \E f \in FramesOf(provider) :
        /\ nread' = nread + 1
        /\ lastFrame' = f
        /\ visible' = IF VisibleText(f) # "" THEN Append(visible, VisibleText(f)) ELSE visible
        /\ sentinelSeen' = (sentinelSeen \/ IsSentinel(provider, f))
        /\ streamEnded' = (streamEnded \/ IsSentinel(provider, f))
        /\ Apply(OnFrame(provider, f))
        /\ usage' = IF FoldsAfterSend(provider) /\ OnFrame(provider, f).pc = "send"
                     THEN usage ELSE Accumulate(provider, usage, f)
        /\ reported' = IF f.usage # NilUsage THEN Merge(reported, f.usage) ELSE reported
    /\ readClosed' = (readClosed \/ body = "closed")
    /\ UNCHANGED <<provider, cap, buf, received, consumer, ctxDone, sendOnClosed,
                   readErr, cancelEarly, errBody, errMsg,
                   nonStreamVars>>

\* The read reports a clean end of input.
ReadEOF ==
    /\ pc = "read"
    /\ Apply(OnStreamEnd(provider))
    /\ streamEnded' = TRUE
    /\ readClosed' = (readClosed \/ body = "closed")
    /\ UNCHANGED <<provider, cap, buf, received, consumer, ctxDone, sendOnClosed, nread,
                   lastFrame, visible, sentinelSeen, readErr, cancelEarly, usage,
                   reported, errBody, errMsg,
                   nonStreamVars>>

\* The read fails.
ReadErr ==
    /\ pc = "read"
    /\ readErr' = TransportErr
    /\ Apply(OnStreamErr(provider, TransportErr))
    /\ streamEnded' = TRUE
    /\ readClosed' = (readClosed \/ body = "closed")
    /\ UNCHANGED <<provider, cap, buf, received, consumer, ctxDone, sendOnClosed, nread,
                   lastFrame, visible, sentinelSeen, cancelEarly, usage, reported,
                   errBody, errMsg,
                   nonStreamVars>>

\* outChan <- chunk completes.
Send ==
    /\ pc = "send"
    /\ CanSend
    /\ ~snd.woken
    /\ IF Len(buf) < cap
       THEN buf' = Append(buf, snd.chunk) /\ received' = received
       ELSE received' = Append(received, snd.chunk) /\ buf' = buf
    /\ sendOnClosed' = (sendOnClosed \/ closes > 0)
    /\ Apply(IF snd.then = "return" THEN Ret(snd.err) ELSE Loop)
    /\ streamEnded' = (streamEnded \/ snd.then = "return")
    /\ usage' = IF snd.then = "loop" /\ FoldsAfterSend(provider)
                 THEN Accumulate(provider, usage, lastFrame) ELSE usage
    /\ UNCHANGED <<provider, cap, consumer, ctxDone, nread, lastFrame, visible,
                   sentinelSeen, readErr, cancelEarly, reported, readClosed, errBody, errMsg,
                   nonStreamVars>>

\* SendCancelled dropping the fragment and reading on instead of returning.
SendCancelledContinues ==
    /\ pc = "send"
    /\ snd.guarded
    /\ ctxDone
    /\ Apply(Loop)
    /\ UNCHANGED <<provider, cap, buf, received, consumer, ctxDone, sendOnClosed, nread,
                   lastFrame, visible, sentinelSeen, readErr, cancelEarly, streamEnded,
                   usage, reported, readClosed, errBody, errMsg,
                   nonStreamVars>>

\* case <-ctx.Done(): return ..., ctx.Err()
SendCancelled ==
    /\ pc = "send"
    /\ snd.guarded
    /\ ctxDone
    /\ Apply(Ret("ctx"))
    /\ streamEnded' = TRUE
    /\ UNCHANGED <<provider, cap, buf, received, consumer, ctxDone, sendOnClosed, nread,
                   lastFrame, visible, sentinelSeen, readErr, cancelEarly, usage,
                   reported, readClosed, errBody, errMsg,
                   nonStreamVars>>

(***************************************************************************)
(* The caller                                                              *)
(***************************************************************************)

\* The caller cancels the context while the call is running.  A worker parked in a
\* select on the send and ctx.Done() is woken by the cancellation, and that case is
\* the one its select takes.
Cancel ==
    /\ ~ctxDone
    /\ pc # "done"
    /\ ctxDone' = TRUE
    /\ cancelEarly' = (/\ pc = "send" /\ snd.then = "loop" /\ ~snd.chunk.IsFinal
                       /\ ~CanSend /\ ~HasFinal(Delivered) /\ ~sentinelSeen)
    /\ snd' = IF pc = "send" /\ snd.guarded /\ ~CanSend
              THEN [snd EXCEPT !.woken = TRUE] ELSE snd
    /\ UNCHANGED <<provider, cap, pc, buf, received, consumer, ret, closes,
                   sendOnClosed, nread, lastFrame, visible, sentinelSeen, readErr,
                   streamEnded, usage, reported, retUsage, body, readClosed, errBody, errMsg,
                   nonStreamVars>>

\* The consumer takes the next chunk from the channel's buffer.
Recv ==
    /\ consumer = "recv"
    /\ Len(buf) > 0
    /\ received' = Append(received, Head(buf))
    /\ buf' = Tail(buf)
    /\ UNCHANGED <<provider, cap, pc, snd, consumer, ctxDone, ret, closes, sendOnClosed,
                   nread, lastFrame, visible, sentinelSeen, readErr, cancelEarly,
                   streamEnded, usage, reported, retUsage, body, readClosed, errBody, errMsg,
                   nonStreamVars>>

\* The consumer stops receiving (it broke out of its range loop).
ConsumerStop ==
    /\ consumer = "recv"
    /\ consumer' = "gone"
    /\ UNCHANGED <<provider, cap, pc, snd, buf, received, ctxDone, ret, closes,
                   sendOnClosed, nread, lastFrame, visible, sentinelSeen, readErr,
                   cancelEarly, streamEnded, usage, reported, retUsage, body, readClosed,
                   errBody, errMsg,
                   nonStreamVars>>

Next ==
    \/ Connect
    \/ CheckCtx
    \/ ReadFrame
    \/ ReadEOF
    \/ ReadErr
    \/ Send
    \/ SendCancelled
    \/ Cancel
    \/ Recv
    \/ ConsumerStop

Spec == Init /\ [][Next]_vars

\* The worker goroutine runs whenever it can take a step (a read returns in the end,
\* with a frame, the end of input or an error), and a consumer that is receiving
\* takes what the channel holds.
FairSpec ==
    /\ Spec
    /\ WF_vars(Connect \/ CheckCtx \/ ReadFrame \/ ReadEOF \/ ReadErr \/ Send
               \/ SendCancelled)
    /\ WF_vars(Recv)

(***************************************************************************)
(* One Z.AI GenerateText call                                              *)
(***************************************************************************)

InitText ==
    /\ provider = "zai"
    /\ OthersIdle("text")
    /\ tpc = "call"
    /\ treq \in Responses
    /\ tres = NoResult

GenerateText ==
    /\ tpc = "call"
    /\ tpc' = "done"
    /\ tres' = ZaiGenerateText(treq)
    /\ UNCHANGED <<treq, streamVars, pairVars, reqVars, extractVars, optVars, utilVars>>

NextText == GenerateText

SpecText == InitText /\ [][NextText]_vars

(***************************************************************************)
(* Two GenerateTextStream calls running concurrently on one Provider.      *)
(* Each call has its own context, transport and channel; the caller of     *)
(* each keeps receiving.  A step of a call is one loop iteration: a read   *)
(* and what the worker does with the frame.                                *)
(***************************************************************************)

\* The frames a call of the pair may carry: a text frame and two usage reports.
PairFrames(p) ==
    {f \in FramesOf(p) :
        \/ VisibleText(f) = "a" /\ f.reasoning = ""
        \/ f.kind # "message_start" /\ f.usage \in {UsageInfo(10, 0, 0), UsageInfo(10, 5, 0)}}

\* The accumulator of all calls kept in one place of the shared Provider.
UsageCellShared(i) == 1

\* The accumulator of call i is a local variable of that call.
UsageCell(i) == i

\* The accumulator's value at the start of the read loop.
InitialUsage(p) == IF p = "claude" THEN ZeroUsage ELSE NilUsage

InitPair ==
    /\ provider \in Providers
    /\ OthersIdle("pair")
    /\ pairIn \in [Calls -> Strs(PairFrames(provider), MaxPairFrames)]
    /\ pairPos = [i \in Calls |-> 0]
    /\ pairOut = [i \in Calls |-> <<>>]
    /\ pairCell = [i \in Calls |-> InitialUsage(provider)]
    /\ pairCancel = [i \in Calls |-> FALSE]
    /\ pairRet = [i \in Calls |-> "none"]
    /\ pairRetUsage = [i \in Calls |-> NilUsage]

\* The chunk a worker step c puts on the channel, as a sequence of zero or one chunk.
ChunkOf(c) == IF c.pc = "send" THEN <<c.snd.chunk>> ELSE <<>>

\* Call i reads its next frame and acts on it.  A guarded send of a cancelled call
\* either goes through or loses to ctx.Done().
PairRead(i) ==
    /\ pairRet[i] = "none"
    /\ pairPos[i] < Len(pairIn[i])
    /\ ~(provider = "claude" /\ pairCancel[i])
    /\ LET f == pairIn[i][pairPos[i] + 1]
           c == OnFrame(provider, f)
           cell == UsageCell(i)
       IN  /\ pairPos' = [pairPos EXCEPT ![i] = @ + 1]
           /\ \E sent \in IF c.pc = "send" /\ c.snd.guarded /\ pairCancel[i]
                           THEN BOOLEAN ELSE {TRUE} :
                IF sent
                THEN /\ pairOut' = [pairOut EXCEPT ![i] = @ \o ChunkOf(c)]
                     /\ pairCell' = [pairCell EXCEPT
                                        ![cell] = Accumulate(provider, @, f)]
                     /\ UNCHANGED <<pairRet, pairRetUsage>>
                ELSE /\ pairRet' = [pairRet EXCEPT ![i] = "ctx"]
                     /\ pairRetUsage' = [pairRetUsage EXCEPT
                            ![i] = ReturnedUsage(provider, "ctx", pairCell[cell])]
                     /\ UNCHANGED <<pairOut, pairCell>>
    /\ UNCHANGED <<pairIn, pairCancel, streamVars, textVars, reqVars, extractVars, optVars, utilVars>>

\* Call i's transport ends cleanly.
PairEnd(i) ==
    /\ pairRet[i] = "none"
    /\ pairPos[i] = Len(pairIn[i])
    /\ ~(provider = "claude" /\ pairCancel[i])
    /\ pairOut' = [pairOut EXCEPT ![i] = @ \o ChunkOf(OnStreamEnd(provider))]
    /\ pairRet' = [pairRet EXCEPT ![i] = "nil"]
    /\ pairRetUsage' = [pairRetUsage EXCEPT
            ![i] = ReturnedUsage(provider, "nil", pairCell[UsageCell(i)])]
    /\ UNCHANGED <<pairIn, pairPos, pairCell, pairCancel, streamVars, textVars, reqVars, extractVars, optVars, utilVars>>

\* Call i is cancelled and its next read fails with the context's error (Claude:
\* the poll at the top of the loop sees ctx.Done()).
PairAbort(i) ==
    /\ pairRet[i] = "none"
    /\ pairCancel[i]
    /\ LET c == IF provider = "claude" THEN Ret("ctx") ELSE OnStreamErr(provider, "ctx")
       IN  pairOut' = [pairOut EXCEPT ![i] = @ \o ChunkOf(c)]
    /\ pairRet' = [pairRet EXCEPT ![i] = "ctx"]
    /\ pairRetUsage' = [pairRetUsage EXCEPT
            ![i] = ReturnedUsage(provider, "ctx", pairCell[UsageCell(i)])]
    /\ UNCHANGED <<pairIn, pairPos, pairCell, pairCancel, streamVars, textVars, reqVars, extractVars, optVars, utilVars>>

\* The caller of call i cancels that call's context.
PairCancel(i) ==
    /\ pairRet[i] = "none"
    /\ ~pairCancel[i]
    /\ pairCancel' = [pairCancel EXCEPT ![i] = TRUE]
    /\ UNCHANGED <<pairIn, pairPos, pairOut, pairCell, pairRet, pairRetUsage,
                   streamVars, textVars, reqVars, extractVars, optVars, utilVars>>

NextPair ==
    \/ \E i \in Calls : PairRead(i)
    \/ \E i \in Calls : PairEnd(i)
    \/ \E i \in Calls : PairAbort(i)
    \/ \E i \in Calls : PairCancel(i)

SpecPair == InitPair /\ [][NextPair]_vars

(***************************************************************************)
(* One GenerateText call of any provider                                   *)
(***************************************************************************)

InitReq ==
    /\ provider \in Providers
    /\ OthersIdle("req")
    /\ rpc = "build"
    /\ ropts \in {Options(t, s, m) :
                    t \in Strs(ToolPool, MaxTools), s \in BOOLEAN,
                    m \in IF provider = "openrouter" THEN BOOLEAN ELSE {TRUE}}
    /\ rwire = NoWire
    /\ rresp = NoAnswer
    /\ rres = NoTextResult
    /\ rusage = NilUsage
    /\ rcalls = <<>>
    /\ rsurfaced = <<>>

\* GenerateText up to the vendor call: the request is built, or the call dies.
Build ==
    /\ rpc = "build"
    /\ LET b == BuildRequest(provider, ropts)
       IN  /\ rwire' = b.wire
           /\ rpc' = IF b.err = "nil" THEN "call" ELSE "done"
           /\ rres' = IF b.err = "nil" THEN rres ELSE TextResult(<<>>, b.err)
    /\ UNCHANGED <<ropts, rresp, rusage, rcalls, rsurfaced, streamVars, textVars, pairVars, extractVars, optVars, utilVars>>

\* The vendor call and everything GenerateText does with the answer.
CallVendor ==
    /\ rpc = "call"
    /\ \E r \in Answers(provider, rwire) :
        /\ rresp' = r
        /\ rres' = HandleResponse(provider, ropts, r)
        /\ rusage' = TextUsage(provider, r, HandleResponse(provider, ropts, r))
        /\ \E calls \in IF r.toolCall THEN Invocations ELSE {<<>>} :
            /\ rcalls' = calls
            /\ rsurfaced' = ToolPayload(provider, calls)
    /\ rpc' = "done"
    /\ UNCHANGED <<ropts, rwire, streamVars, textVars, pairVars, extractVars, optVars, utilVars>>

NextReq ==
    \/ Build
    \/ CallVendor

SpecReq == InitReq /\ [][NextReq]_vars

(***************************************************************************)
(* The two JSON extractors applied to one text                             *)
(***************************************************************************)

\* The extractors belong to no provider; the text is any well-formed text.
InitExtract ==
    /\ provider = "deepseek"
    /\ OthersIdle("extract")
    /\ xin \in ExtractInputs
    /\ xstrict = NotExtracted
    /\ xbest = NotExtracted

\* utils.ExtractJSONFromString(xin)
ExtractStrict ==
    /\ ~xstrict.done
    /\ xstrict' = StrictExtraction(ExtractJSONFromString(xin))
    /\ UNCHANGED <<xin, xbest, streamVars, textVars, pairVars, reqVars, optVars, utilVars>>

\* utils.ExtractValidJSON(xin)
ExtractBest ==
    /\ ~xbest.done
    /\ xbest' = BestExtraction(ExtractValidJSON(xin))
    /\ UNCHANGED <<xin, xstrict, streamVars, textVars, pairVars, reqVars, optVars, utilVars>>

NextExtract ==
    \/ ExtractStrict
    \/ ExtractBest

SpecExtract == InitExtract /\ [][NextExtract]_vars

(***************************************************************************)
(* The schema conversions applied to one schema                            *)
(***************************************************************************)

\* The conversions belong to no provider; the schema is any schema of the pool.
InitSchema ==
    /\ provider = "deepseek"
    /\ OthersIdle("util")
    /\ sin \in Schemas
    /\ sres = Conversion("none", NilSchema)
    /\ sjson = Conversion("none", NilSchema)
    /\ kin = KeySetup(<<>>, <<>>, FALSE, "none", <<>>, <<>>, <<>>)
    /\ kres = KeyResult(FALSE, <<>>)
    /\ uin = ClaudeUsage(0, 0, 0, 0)
    /\ utext = NilUsage
    /\ ustream = NilUsage

\* llm.ConvertSchemaToMap(sin)
ConvertMap ==
    /\ sres.outcome = "none"
    /\ sres' = ConvertSchemaToMap(sin)
    /\ UNCHANGED <<sin, sjson, kin, kres, uin, utext, ustream,
                   streamVars, textVars, pairVars, reqVars, extractVars, optVars>>

\* llm.ConvertToJSONSchema(sin)
ConvertJSON ==
    /\ sjson.outcome = "none"
    /\ sjson' = ConvertToJSONSchema(sin)
    /\ UNCHANGED <<sin, sres, kin, kres, uin, utext, ustream,
                   streamVars, textVars, pairVars, reqVars, extractVars, optVars>>

NextSchema ==
    \/ ConvertMap
    \/ ConvertJSON

SpecSchema == InitSchema /\ [][NextSchema]_vars

(***************************************************************************)
(* One key lookup                                                          *)
(***************************************************************************)

InitKey ==
    /\ provider = "deepseek"
    /\ OthersIdle("util")
    /\ sin = NilSchema
    /\ sres = Conversion("none", NilSchema)
    /\ sjson = Conversion("none", NilSchema)
    /\ kin \in KeySetups
    /\ kres = KeyResult(FALSE, <<>>)
    /\ uin = ClaudeUsage(0, 0, 0, 0)
    /\ utext = NilUsage
    /\ ustream = NilUsage

\* testutil.GetAPIKey(providerName)
LookupKey ==
    /\ ~kres.done
    /\ kres' = KeyResult(TRUE, GetAPIKey(kin))
    /\ UNCHANGED <<sin, sres, sjson, kin, uin, utext, ustream,
                   streamVars, textVars, pairVars, reqVars, extractVars, optVars>>

SpecKey == InitKey /\ [][LookupKey]_vars

(***************************************************************************)
(* Claude's usage counters on the two paths                                *)
(***************************************************************************)

InitUsage ==
    /\ provider = "claude"
    /\ OthersIdle("util")
    /\ sin = NilSchema
    /\ sres = Conversion("none", NilSchema)
    /\ sjson = Conversion("none", NilSchema)
    /\ kin = KeySetup(<<>>, <<>>, FALSE, "none", <<>>, <<>>, <<>>)
    /\ kres = KeyResult(FALSE, <<>>)
    /\ uin \in {ClaudeUsage(i, o, c, r) :
                    i \in 0..MaxTokenCount, o \in 0..MaxTokenCount,
                    c \in 0..MaxTokenCount, r \in 0..MaxTokenCount}
    /\ utext = NilUsage
    /\ ustream = NilUsage

\* GenerateText decodes the answer and builds its UsageInfo.
MapTextUsage ==
    /\ utext = NilUsage
    /\ utext' = ClaudeTextUsage(uin)
    /\ UNCHANGED <<sin, sres, sjson, kin, kres, uin, ustream,
                   streamVars, textVars, pairVars, reqVars, extractVars, optVars>>

\* GenerateTextStream reads the event that carries the usage object.
MapStreamUsage ==
    /\ ustream = NilUsage
    /\ ustream' = ClaudeStreamUsage(uin)
    /\ UNCHANGED <<sin, sres, sjson, kin, kres, uin, utext,
                   streamVars, textVars, pairVars, reqVars, extractVars, optVars>>

NextUsage ==
    \/ MapTextUsage
    \/ MapStreamUsage

SpecUsage == InitUsage /\ [][NextUsage]_vars

(***************************************************************************)
(* Options applied one after the other, then the system instruction        *)
(***************************************************************************)

InitPrompt ==
    /\ provider \in Providers
    /\ OthersIdle("opt")
    /\ opc = "apply"
    /\ omode \in {"text", "stream"}
    /\ othinking \in (IF provider = "zai" THEN BOOLEAN ELSE {FALSE})
    /\ oopts = (IF omode = "stream" THEN StreamDefaults(provider) ELSE Defaults(provider))
    /\ oapplied = <<>>
    /\ oprompt = <<>>
    /\ owire = SamplingParams("zai", FALSE, GenerationOptions)

\* for _, opt := range opts { opt(options) }: one turn of the loop.
ApplyNextOption ==
    /\ opc = "apply"
    /\ Len(oapplied) < MaxOptions
    /\ \E opt \in OptionPool :
        /\ oopts' = ApplyOption(oopts, opt)
        /\ oapplied' = Append(oapplied, opt)
    /\ UNCHANGED <<opc, oprompt, omode, othinking, owire,
                   streamVars, textVars, pairVars, reqVars, extractVars, utilVars>>

\* The loop is over; the provider composes the system instruction and fills the
\* sampling fields of the request.
Compose ==
    /\ opc = "apply"
    /\ opc' = "composed"
    /\ oprompt' = ComposeSystemPrompt(provider, oopts)
    /\ owire' = SamplingParams(provider, othinking, oopts)
    /\ UNCHANGED <<oopts, oapplied, omode, othinking,
                   streamVars, textVars, pairVars, reqVars, extractVars, utilVars>>

NextPrompt ==
    \/ ApplyNextOption
    \/ Compose

SpecPrompt == InitPrompt /\ [][NextPrompt]_vars

(***************************************************************************)
(* Properties of the streaming call                                        *)
(***************************************************************************)

\* The text fragments of a chunk sequence: the Delta of each chunk that is neither a
\* finality marker nor an error and carries text.
RECURSIVE FragmentTexts(_)
FragmentTexts(s) ==
    IF s = <<>> THEN <<>>
    ELSE IF ~Head(s).IsFinal /\ Head(s).Err = "nil" /\ Head(s).Delta # ""
        THEN <<Head(s).Delta>> \o FragmentTexts(Tail(s))
    ELSE FragmentTexts(Tail(s))

IsPrefix(s, t) == Len(s) <= Len(t) /\ \A i \in 1..Len(s) : s[i] = t[i]

Finals(s) == {i \in 1..Len(s) : s[i].IsFinal}

\* C1: the delivery channel is closed exactly once on every exit path (it is closed
\* when, and only when, the call has returned), and no send is attempted on it after
\* it has been closed.
C1_ClosedExactlyOnce ==
    /\ closes <= 1
    /\ (pc = "done") <=> (closes = 1)
    /\ (ret # "none") <=> (pc = "done")
    /\ ~sendOnClosed

\* C1's case: the call has returned on the cancellation path after delivering chunks.
C1_Witness == pc = "done" /\ ret = "ctx" /\ closes = 1 /\ Len(Delivered) > 0

\* C2: on every exit path other than caller cancellation, the last item delivered
\* before the channel is closed is a finality marker or an error chunk; the channel
\* is never closed empty or directly after a text fragment.
C2_LastItemFinalOrErr ==
    (pc = "done" /\ ret # "ctx") =>
        /\ Len(Delivered) > 0
        /\ Last(Delivered).IsFinal \/ Last(Delivered).Err # "nil"

\* C3: whenever the call returns a nil error, exactly one finality marker was
\* delivered and it is the last item delivered.
C3_NilReturnOneFinalLast ==
    (pc = "done" /\ ret = "nil") =>
        /\ Cardinality(Finals(Delivered)) = 1
        /\ Last(Delivered).IsFinal

\* C4: after a transport read error the worker reads no more (it is sending the error
\* chunk or has returned), and once it has returned the error chunk carrying that
\* error is the last item delivered and the call's result is that error.
C4_ReadErrorIsTerminalItem ==
    (readErr = "stream" /\ nread > 0) =>
        /\ pc \in {"send", "done"}
        /\ pc = "send" => snd.then = "return"
        /\ pc = "done" =>
            /\ ret = "stream"
            /\ Len(Delivered) > 0
            /\ Last(Delivered) = ErrChunk("stream")

\* C5: in Z.AI streaming a fragment about to be sent carries the content field of the
\* frame just decoded, so a frame with empty content queues no fragment whatever its
\* reasoning_content; no delivered chunk carries reasoning text, and no more
\* fragments are delivered than frames with non-empty content were decoded.
C5_ZaiNeverStreamsReasoning ==
    provider = "zai" =>
        /\ (pc = "send" /\ ~snd.chunk.IsFinal /\ snd.chunk.Err = "nil") =>
               (snd.chunk.Delta = lastFrame.content /\ lastFrame.content # "")
        /\ \A i \in 1..Len(Delivered) : Delivered[i].Delta \notin ReasoningTexts
        /\ Len(FragmentTexts(Delivered)) <= Len(visible)

\* C5's case: Z.AI decoded a frame with empty content and non-empty reasoning_content
\* after a fragment, and is back at the read with nothing more delivered.
C5_Witness ==
    /\ provider = "zai"
    /\ lastFrame.kind = "chunk" /\ lastFrame.content = "" /\ lastFrame.reasoning # ""
    /\ pc = "read"
    /\ nread = 2
    /\ Len(Delivered) = 1

\* C7: every send races against the caller's cancellation: a worker blocked on a send
\* after the context was cancelled can take the cancellation branch.
C7_BlockedSendSeesCancellation ==
    (pc = "send" /\ ctxDone /\ ~CanSend) => snd.guarded

\* C8: if the context is cancelled before the stream has ended, here while the worker
\* is blocked on a fragment send, the worker never goes back to the transport read,
\* returns the cancellation error and delivers no finality marker.
C8_CancelledStreamAbandoned ==
    cancelEarly =>
        /\ pc # "read"
        /\ pc = "done" => (ret = "ctx" /\ ~HasFinal(Delivered))

\* C9: once a finality marker has been delivered no frame is read and no chunk is
\* delivered; once the vendor's terminal sentinel has been decoded no frame is read
\* and nothing but the one finality marker is delivered.
C9_TerminalIsTerminal ==
    [][/\ HasFinal(Delivered) => (nread' = nread /\ Delivered' = Delivered)
       /\ sentinelSeen =>
            /\ nread' = nread
            /\ \/ Delivered' = Delivered
               \/ ~HasFinal(Delivered) /\ Delivered' = Append(Delivered, FinalChunk)]_vars

\* C10: at every point the text fragments delivered so far are a prefix of the
\* non-empty visible-content values of the frames decoded, in decode order; when the
\* call has returned nil they are the whole sequence.
C10_FragmentsInDecodeOrder ==
    /\ IsPrefix(FragmentTexts(Delivered), visible)
    /\ (pc = "done" /\ ret = "nil") => FragmentTexts(Delivered) = visible

\* C10's case: a call that returned nil after decoding two different fragments, with
\* an empty frame between them.
C10_Witness ==
    /\ pc = "done" /\ ret = "nil"
    /\ visible = <<"a", "b">>
    /\ nread = 3
    /\ FragmentTexts(Delivered) = <<"a", "b">>

(***************************************************************************)
(* Properties of Z.AI GenerateText                                         *)
(***************************************************************************)
Range(s) == {s[i] : i \in 1..Len(s)}

IsSubstring(s, t) == \E i \in 1..(Len(t) + 1), j \in 0..Len(t) : s = SubSeq(t, i, j)

\* C6: Z.AI GenerateText never returns reasoning_content: a first choice with empty
\* content and non-empty reasoning_content gives an error with empty text and nil
\* usage, and the text of a successful return is a non-empty part of the content field
\* holding no reasoning text.
C6_ZaiTextOnlyFromContent ==
    tpc = "done" =>
        /\ (treq.outcome = "ok" /\ treq.choices > 0 /\ treq.content = <<>>
                /\ treq.reasoning # <<>>) =>
               (tres.err \notin {"nil", "none"} /\ tres.text = <<>> /\ tres.usage = "nil")
        /\ tres.err = "nil" =>
               /\ tres.text # <<>>
               /\ "r" \notin Range(tres.text)
               /\ IsSubstring(tres.text, treq.content)

\* C6's case: a call whose first choice had empty content and reasoning text ended in
\* the error.
C6_Witness ==
    /\ tpc = "done"
    /\ treq.outcome = "ok" /\ treq.choices = 1
    /\ treq.content = <<>> /\ treq.reasoning = <<"r", "r">>
    /\ tres = Failure("reasoning budget")

(***************************************************************************)
(* Clean end of input and the shape of chunks                              *)
(***************************************************************************)

\* Three text frames with texts "a", "b", "" were read, in that order, and then the
\* transport closed cleanly: no sentinel, no read error, no cancellation.
ThreeTextFramesThenCleanClose ==
    /\ pc = "done"
    /\ ~ctxDone
    /\ readErr = "nil"
    /\ ~sentinelSeen
    /\ nread = 3
    /\ visible = <<"a", "b">>
    /\ lastFrame.kind \in {"chunk", "text_delta"}
    /\ lastFrame.content = ""

\* C11: after text frames "a", "b", "" and a clean close without a sentinel, the caller
\* has received exactly [fragment "a", fragment "b", finality marker] and the call
\* returned a nil error.
C11_CleanCloseIsSuccess ==
    ThreeTextFramesThenCleanClose =>
        /\ Delivered = <<DeltaChunk("a"), DeltaChunk("b"), FinalChunk>>
        /\ ret = "nil"

\* The three shapes a delivered chunk may have.
IsFragment(c) == c.Delta # "" /\ ~c.IsFinal /\ c.Err = "nil"
IsFinalityMarker(c) == c.Delta = "" /\ c.IsFinal /\ c.Err = "nil"
IsTerminalError(c) == c.Delta = "" /\ ~c.IsFinal /\ c.Err # "nil"

\* C12: every delivered chunk is a text fragment, a finality marker or a terminal
\* error, so a frame whose text is empty puts no chunk on the channel.
C12_ChunkIsOneOfThree ==
    \A i \in 1..Len(Delivered) :
        IsFragment(Delivered[i]) \/ IsFinalityMarker(Delivered[i])
            \/ IsTerminalError(Delivered[i])

(***************************************************************************)
(* Frames that fail to decode                                              *)
(***************************************************************************)

\* C13: a step that reads a frame whose payload fails to decode delivers no chunk,
\* leaves the usage accumulator untouched, does not end the stream and leaves the
\* worker exactly where a step without that frame would be: at the next read.
C13_MalformedFrameSkipped ==
    [][(nread' = nread + 1 /\ lastFrame'.kind = "malformed") =>
            /\ Delivered' = Delivered
            /\ usage' = usage
            /\ reported' = reported
            /\ pc' = LoopPc(provider)
            /\ snd' = NoSend
            /\ ret' = "none"
            /\ closes' = closes
            /\ body' = body
            /\ visible' = visible
            /\ sentinelSeen' = sentinelSeen
            /\ streamEnded' = streamEnded]_vars

\* Claude has recorded a usage report, then read a frame that failed to decode, and
\* goes on reading with the report intact.
C13_Witness ==
    /\ provider = "claude"
    /\ lastFrame.kind = "malformed"
    /\ nread = 2
    /\ pc = "read"
    /\ usage = UsageInfo(10, 5, 0)
    /\ ret = "none"

(***************************************************************************)
(* Usage returned by a streaming call                                      *)
(***************************************************************************)

\* C14: when a streaming call that received usage reports returns successfully, each
\* field of the usage it returns is the most recent non-zero value reported for that
\* field; a later report that omits the field or carries 0 does not reset it.
C14_UsageKeepsLatestNonZero ==
    (pc = "done" /\ ret = "nil" /\ reported # ZeroUsage) => retUsage = reported

(***************************************************************************)
(* The HTTP response body                                                  *)
(***************************************************************************)

\* C15: in the HTTP-based providers the response body, once obtained, is closed by the
\* time the call has returned, whatever the exit path, and it is never read after the
\* close.
C15_BodyClosedOnEveryExit ==
    provider \in {"zai", "claude"} =>
        /\ pc = "done" => body \in {"none", "closed"}
        /\ (pc = "done" /\ (nread > 0 \/ ret \in {"api", "nil"})) => body = "closed"
        /\ ~readClosed

\* Z.AI returned on cancellation in the middle of a stream, and the body is closed.
C15_Witness ==
    /\ provider = "zai"
    /\ pc = "done"
    /\ ret = "ctx"
    /\ nread = 2
    /\ body = "closed"

(***************************************************************************)
(* Concurrent calls                                                        *)
(***************************************************************************)

\* What a call running alone delivers for the frames it has read.
RECURSIVE SoloChunks(_, _)
SoloChunks(p, frames) ==
    IF frames = <<>> THEN <<>>
    ELSE ChunkOf(OnFrame(p, Head(frames))) \o SoloChunks(p, Tail(frames))

\* What a call running alone has accumulated, from u, over the frames it has read.
RECURSIVE SoloUsage(_, _, _)
SoloUsage(p, u, frames) ==
    IF frames = <<>> THEN u
    ELSE SoloUsage(p, Accumulate(p, u, Head(frames)), Tail(frames))

\* The first n frames of call i.
PairTaken(i, n) == SubSeq(pairIn[i], 1, n)

RequestBuilt == rpc \in {"call", "done"}

\* C17: no wire request carries both a native tool list and a native structured-output
\* directive, and in every provider that translates tools a non-empty options.Tools
\* keeps the response schema from being applied as a native directive. (Z.AI, which
\* translates no tools, sets response_format json_object whenever a schema is set.)
C17_NeverToolsAndDirective ==
    RequestBuilt =>
        /\ ~(rwire.tools # <<>> /\ rwire.structured # "none")
        /\ (TranslatesTools(provider) /\ ropts.tools # <<>>) => rwire.structured = "none"

\* C17 as stated: never both, and whenever options.Tools is non-empty no native
\* structured-output directive is applied, in any provider.
C17_ToolsAlwaysSuppressDirective ==
    RequestBuilt =>
        /\ ~(rwire.tools # <<>> /\ rwire.structured # "none")
        /\ ropts.tools # <<>> => rwire.structured = "none"

\* An OpenAI request built from one tool and a schema: the tool is on the wire, the
\* schema is not.
C17_Witness ==
    /\ provider = "openai"
    /\ rpc = "call"
    /\ ropts = Options(<<Tool("t1", TRUE)>>, TRUE, TRUE)
    /\ rwire = Wire(<<"t1">>, "none", FALSE)

\* C18: in every provider that translates tools, a tool with a nil InputSchema is
\* skipped while the request is built: the call does not die of it, and the tools that
\* have a schema are on the wire in their original order.
C18_NilSchemaToolSkipped ==
    (RequestBuilt /\ TranslatesTools(provider) /\ ropts.supported) =>
        /\ rres.err # "panic"
        /\ rwire.tools = SkipNilSchema(ropts.tools)

\* C19: an OpenRouter GenerateText call that passes tools to a model outside the
\* supported list sends its request with no tool list and is not failed for it: the
\* result is what the response handling makes of the vendor's answer to that request.
C19_UnsupportedModelDropsTools ==
    (provider = "openrouter" /\ ropts.tools # <<>> /\ ~ropts.supported) =>
        /\ RequestBuilt => (rwire.tools = <<>> /\ (rpc = "call" \/ rresp # NoAnswer))
        /\ rpc = "done" =>
            /\ rresp \in Answers("openrouter", NoWire)
            /\ rres = SdkGenerateText(rresp)

\* OpenRouter, two tools, unsupported model: the tool-less request was answered with
\* content and the call returned it.
C19_Witness ==
    /\ provider = "openrouter"
    /\ ropts = Options(<<Tool("t1", TRUE), Tool("t2", TRUE)>>, TRUE, FALSE)
    /\ rpc = "done"
    /\ rwire = NoWire
    /\ rresp = Answer("ok", 1, <<"x">>, <<>>, FALSE)
    /\ rres = TextResult(<<"x">>, "nil")

\* The errors that say "no content generated".
NoContentErrors == {"no content", "reasoning budget"}

\* C20: GenerateText returns the "no content" error whenever the vendor's answer has no
\* choice and no tool invocation, and whenever its content is empty; it never returns a
\* nil error together with empty text.
C20_EmptyAnswerIsError ==
    rpc = "done" =>
        /\ (rresp.outcome = "ok" /\ ~rresp.toolCall
              /\ (rresp.choices = 0 \/ rresp.content = <<>>))
            => rres.err \in NoContentErrors
        /\ rres.err = "nil" => rres.text # <<>>

\* C21: when the vendor's answer signals tool invocation, GenerateText surfaces only
\* the first invocation, as a payload that identifies both its tool name and its
\* arguments, also when the answer holds several invocations.
C21_FirstInvocationWithName ==
    (rpc = "done" /\ rresp.toolCall /\ rres.err = "nil") =>
        /\ rres.text = ToolCallText
        /\ rsurfaced = <<rcalls[1]>>

\* The call came back with generated text: a schema was asked for, the vendor
\* answered with non-empty content and invoked no tool.
SchemaTextAnswered ==
    /\ rpc = "done"
    /\ ropts.schema
    /\ rresp.outcome = "ok" /\ rresp.choices = 1 /\ ~rresp.toolCall
    /\ rresp.content # <<>>

\* C22: when a response schema is requested, no tool is invoked and JSON extraction
\* from the generated text fails, GenerateText returns the generated text unchanged,
\* with the usage record and a nil error.
C22_ExtractionFailureIsNotFatal ==
    (SchemaTextAnswered /\ ~ExtractJSONFromString(rresp.content).ok) =>
        /\ rres = TextResult(rresp.content, "nil")
        /\ rusage = VendorUsage

\* DeepSeek, schema asked for, the model wrote prose around a fence with no JSON in it:
\* the text comes back as generated.
C22_Witness ==
    /\ provider = "deepseek"
    /\ rpc = "done"
    /\ ropts = Options(<<>>, TRUE, TRUE)
    /\ rresp = Answer("ok", 1, <<"J", "x", "F">>, <<>>, FALSE)
    /\ rres = TextResult(<<"J", "x", "F">>, "nil")
    /\ rusage = VendorUsage

\* s is one JSON object or array from index i to index j with prose around it: no
\* fence anywhere, no bracket outside the span, and a letter on at least one side.
IsJSONInProse(s, i, j) ==
    /\ 1 <= i /\ i < j /\ j <= Len(s)
    /\ s[i] \in {"{", "["}
    /\ ValidJSON(SubSeq(s, i, j))
    /\ \A k \in 1..Len(s) : s[k] \notin {"J", "F", "b"}
    /\ \A k \in (1..(i - 1)) \cup ((j + 1)..Len(s)) : s[k] \in {"x", "_"}
    /\ \E k \in (1..(i - 1)) \cup ((j + 1)..Len(s)) : s[k] = "x"

\* C23: when a response schema is requested and the generated text is one valid JSON
\* object or array surrounded by prose, with no json fence, GenerateText returns exactly
\* the JSON substring, which is what ExtractValidJSON gives for that text.
C23_ProseWrappedJSONExtracted ==
    (SchemaTextAnswered /\ ropts.tools = <<>>) =>
        \A i, j \in 1..Len(rresp.content) :
            IsJSONInProse(rresp.content, i, j) =>
                /\ rres.text = SubSeq(rresp.content, i, j)
                /\ rres.text = ExtractValidJSON(rresp.content)

(***************************************************************************)
(* Properties of the JSON extractors                                       *)
(***************************************************************************)

\* The interiors of the json fenced blocks of s that parse as JSON: the trimmed text
\* between a json fence opener and the next fence.
ValidFenceInteriors(s) ==
    {TrimSpace(SubSeq(s, i + 1, j - 1)) : <<i, j>> \in
        {ij \in (1..Len(s)) \X (1..Len(s)) :
            /\ ij[1] < ij[2]
            /\ s[ij[1]] = "J" /\ s[ij[2]] = "F"
            /\ \A k \in (ij[1] + 1)..(ij[2] - 1) : s[k] \notin {"J", "F", "b"}
            /\ ValidJSON(SubSeq(s, ij[1] + 1, ij[2] - 1))}}

\* C24 for ExtractJSONFromString: a text with a json fenced block whose interior parses
\* gets exactly such an interior back.
StrictReturnsFenceInterior ==
    (xstrict.done /\ ValidFenceInteriors(xin) # {}) =>
        xstrict.ok /\ xstrict.text \in ValidFenceInteriors(xin)

\* C24 for ExtractValidJSON.
BestReturnsFenceInterior ==
    (xbest.done /\ ValidFenceInteriors(xin) # {}) =>
        xbest.text \in ValidFenceInteriors(xin)

\* C24: whenever the text contains a json fenced block whose interior parses as JSON,
\* both ExtractJSONFromString and ExtractValidJSON return exactly that interior,
\* whatever braces or brackets stand outside the fence.
C24_FenceInteriorReturned == StrictReturnsFenceInterior /\ BestReturnsFenceInterior

\* No substring of s validates as JSON.
NoJSONIn(s) == \A i, j \in 1..Len(s) : i <= j => ~ValidJSON(SubSeq(s, i, j))

\* C25 for ExtractValidJSON: the input comes back with only its surrounding whitespace
\* trimmed.
BestReturnsTrimmedInput == (xbest.done /\ NoJSONIn(xin)) => xbest.text = TrimSpace(xin)

\* C25 for ExtractJSONFromString: it reports an error.
StrictReportsError == (xstrict.done /\ NoJSONIn(xin)) => ~xstrict.ok

\* C25: when no substring of the input validates as JSON, ExtractValidJSON returns the
\* input with only its surrounding whitespace trimmed, and ExtractJSONFromString
\* reports an error.
C25_NoJSONReturnsTrimmedInput == BestReturnsTrimmedInput /\ StrictReportsError

(***************************************************************************)
(* Properties of the non-200 streaming response                            *)
(***************************************************************************)

\* The call returned after a non-200 response: exactly one error chunk was delivered,
\* the channel is closed once, and the error is returned.
OneErrorChunkOnly ==
    /\ Delivered = <<ErrChunk("api")>>
    /\ closes = 1
    /\ ret = "api"

LastFor(f) ==
    LET targeting == {i \in 1..Len(oapplied) : oapplied[i].field = f}
    IN  IF targeting = {} THEN 0
        ELSE CHOOSE i \in targeting : \A j \in targeting : j <= i

\* The value an option carries for its field.
ValueOf(opt) == IF opt.field \in {"Tools", "SystemBlocks"} THEN opt.list ELSE opt.text

\* C27: after any sequence of options, each field equals the value of the last option
\* in the sequence that targets it, or the provider default if none does; an option
\* changes only its own field, and Tools and SystemBlocks are replaced as a whole.
C27_LastOptionWinsPerField ==
    opc # "idle" =>
        \A f \in DOMAIN oopts :
            oopts[f] = IF LastFor(f) = 0
                       THEN (IF omode = "stream" THEN StreamDefaults(provider)
                             ELSE Defaults(provider))[f]
                       ELSE ValueOf(oapplied[LastFor(f)])

\* DeepSeek: WithTools(t1), WithLanguage(ko), WithTools(t2, t3) leave the second tool
\* list alone in Tools, the language set and the default system text in place.
C27_Witness ==
    /\ provider = "deepseek"
    /\ oapplied = <<Option("Tools", "", <<"t1">>), Option("Language", "ko", <<>>),
                    Option("Tools", "", <<"t2", "t3">>)>>
    /\ oopts.Tools = <<"t2", "t3">>
    /\ oopts.Language = "ko"
    /\ oopts.System = Helpful
    /\ oopts.MaxTokens = "4096"

\* The segments of the composed instruction that are of one kind.
Has(kind) == \E i \in 1..Len(oprompt) : oprompt[i].kind = kind

\* C28: with no system blocks and a non-empty system text, the composed instruction
\* starts with the language directive, when one is emitted, immediately followed by the
\* system text, and composing the same options again gives the same instruction.
C28_LanguageDirectiveThenSystem ==
    (opc = "composed" /\ oopts.SystemBlocks = <<>> /\ oopts.System # "") =>
        /\ Has("language") =>
            /\ oprompt[1].kind = "language"
            /\ Len(oprompt) >= 2 /\ oprompt[2] = Segment("system", oopts.System)
        /\ ~Has("language") => oprompt[1] = Segment("system", oopts.System)
        /\ oprompt = ComposeSystemPrompt(provider, oopts)

\* C29: the composed instruction holds a language directive exactly when Language is
\* set and is not "en", and the directive names the language by its human-readable
\* name, never by the raw code.
C29_LanguageDirectiveIffNotEnglish ==
    opc = "composed" =>
        /\ Has("language") <=> (oopts.Language # "" /\ oopts.Language # "en")
        /\ \A i \in 1..Len(oprompt) :
            oprompt[i].kind = "language" =>
                /\ oprompt[i].text # oopts.Language
                /\ oopts.Language \in DOMAIN LanguageNames
                    => oprompt[i].text = LanguageNames[oopts.Language]

\* C30: the raw "Response format:" directive is in the composed instruction only when
\* ResponseFormat is set and no ResponseSchema is present.
C30_FormatDirectiveOnlyWithoutSchema ==
    (opc = "composed" /\ Has("format")) =>
        oopts.ResponseFormat # "" /\ oopts.ResponseSchema = "nil"

\* C31: in every provider's composed system instruction the SystemBlock texts come
\* first, in list order, ahead of the system text, the language directive and the
\* schema instruction.
C31_BlocksComeFirst ==
    (opc = "composed" /\ oopts.SystemBlocks # <<>>) =>
        /\ Len(oprompt) >= Len(oopts.SystemBlocks)
        /\ \A i \in 1..Len(oopts.SystemBlocks) :
            oprompt[i] = Segment("block", oopts.SystemBlocks[i])

(***************************************************************************)
(* Properties of the sampling fields of the built request                  *)
(***************************************************************************)

\* The request fields that carry a sampling option.
SamplingFields == {"Temperature", "TopP", "TopK", "MaxTokens"}

\* The request carries field f only when the option is set, with the option's value.
SentAsSet(f) == owire[f] # "nil" => (oopts[f] # "nil" /\ owire[f] = oopts[f])

\* Z.AI with a model name that contains "glm-4.7".
ThinkingModel == provider = "zai" /\ othinking

\* The larger of the caller's max-tokens value and the thinking minimum.
AtLeastThinkingMin ==
    IF oopts.MaxTokens # "nil" /\ Int64[oopts.MaxTokens] > ThinkingMinTokens
    THEN Int64[oopts.MaxTokens] ELSE ThinkingMinTokens

\* C32 (as stated): a built request carries a temperature, top-p, top-k or max-tokens
\* field only when the corresponding option is set, and with the option's value; the
\* builder never inserts a value for an option that is unset.
C32_SamplingOnlyWhenSet ==
    opc = "composed" => \A f \in SamplingFields : SentAsSet(f)

\* C32 (amended): the same for every field of every provider, except max_tokens of
\* Z.AI with a thinking model, which is always sent and is the larger of the option's
\* value and the thinking minimum.
C32_SamplingOnlyWhenSetUnlessThinking ==
    opc = "composed" =>
        /\ \A f \in SamplingFields \ {"MaxTokens"} : SentAsSet(f)
        /\ ~ThinkingModel => SentAsSet("MaxTokens")
        /\ ThinkingModel =>
            owire.MaxTokens # "nil" /\ Int64[owire.MaxTokens] = AtLeastThinkingMin

\* Z.AI GenerateText, no thinking, WithTemperature alone: the request carries the
\* temperature and neither max_tokens nor top_p.
C32_Witness ==
    /\ opc = "composed" /\ provider = "zai" /\ omode = "text" /\ ~othinking
    /\ oapplied = <<Option("Temperature", "0.2", <<>>)>>
    /\ owire.Temperature = "0.2"
    /\ owire.MaxTokens = "nil" /\ owire.TopP = "nil" /\ owire.TopK = "nil"

\* C35: for Z.AI, in GenerateText and in GenerateTextStream, a model name that
\* contains "glm-4.7" sends thinking enabled and max_tokens = max(caller value, 16384),
\* 16384 when unset; any other model name sends no thinking field and the caller's or
\* default max_tokens, none when there is none.
C35_ThinkingRaisesMaxTokens ==
    (opc = "composed" /\ provider = "zai") =>
        IF othinking
        THEN /\ owire.Thinking = "enabled"
             /\ owire.MaxTokens # "nil" /\ Int64[owire.MaxTokens] = AtLeastThinkingMin
        ELSE /\ owire.Thinking = "nil"
             /\ owire.MaxTokens = oopts.MaxTokens

\* Z.AI GenerateTextStream with a thinking model and no max-tokens option: the default
\* of 4096 is raised to 16384.
C35_Witness ==
    /\ opc = "composed" /\ provider = "zai" /\ omode = "stream" /\ othinking
    /\ LastFor("MaxTokens") = 0 /\ oopts.MaxTokens = "4096"
    /\ owire.MaxTokens = "16384" /\ owire.Thinking = "enabled"

(***************************************************************************)
(* Properties of the schema conversion                                     *)
(***************************************************************************)

\* A schema with a nil entry among the properties of some node.
RECURSIVE Malformed(_)
Malformed(schema) ==
    /\ schema # NilSchema
    /\ \/ \E i \in 1..Len(schema.props) :
              schema.props[i] = NilSchema \/ Malformed(schema.props[i])
       \/ Malformed(schema.items)

\* The conversion reported an error and handed out no map.
FailedCleanly(result) == result.outcome = "error" /\ result.map = NilSchema

\* C33: converting a schema with a malformed nested node (a nil entry in Properties)
\* makes ConvertSchemaToMap and ConvertToJSONSchema return an error and no map: no
\* partial map and no crash.
C33_MalformedSchemaFailsCleanly ==
    Malformed(sin) =>
        /\ sres.outcome # "none" => FailedCleanly(sres)
        /\ sjson.outcome # "none" => FailedCleanly(sjson)

(***************************************************************************)
(* Properties of the key lookup                                            *)
(***************************************************************************)

\* The key the stated order yields: environment, then api_key of providers.yaml with
\* its references expanded, then the key file, the empty key when none has one.
KeyInStatedOrder ==
    LET fromYaml == IF kin.configured THEN expandEnvVars(kin.apiKey, kin.varValue)
                    ELSE <<>>
        fromFile == IF kin.configured /\ kin.keyFile = "readable"
                    THEN TrimSpace(kin.fileText) ELSE <<>>
    IN  IF kin.envKey # <<>> THEN kin.envKey
        ELSE IF kin.genericKey # <<>> THEN kin.genericKey
        ELSE IF fromYaml # <<>> THEN fromYaml
        ELSE fromFile

\* C34: GetAPIKey resolves the key from the provider's environment variable first,
\* then from the api_key entry of ~/.holon/providers.yaml (references expanded), then
\* from the configured key file, and returns the empty string when none yields a key.
C34_KeyResolutionOrder == kres.done => kres.key = KeyInStatedOrder

(***************************************************************************)
(* Termination of the streaming call                                       *)
(***************************************************************************)

\* C36: if the consumer keeps receiving and the transport delivers finitely many
\* frames and then ends, cleanly or with an error, every GenerateTextStream call
\* eventually returns with the channel closed, for buffered and unbuffered channels.
C36_EveryCallReturns ==
    [](consumer = "recv") => <>(pc = "done" /\ closes = 1)

\* Deepseek on an unbuffered channel: two fragments and the finality marker were
\* handed to the receiving consumer, the transport ended, the call returned nil.
C36_Witness ==
    /\ provider = "deepseek" /\ cap = 0 /\ consumer = "recv" /\ ~ctxDone
    /\ pc = "done" /\ closes = 1 /\ ret = "nil"
    /\ Len(received) = 3 /\ Last(received).IsFinal

\* C38: when the Claude stream carries an "error" event, the call does not end as a
\* success: an error chunk is delivered, no finality marker is delivered, and
\* GenerateTextStream returns a non-nil error.  Stated for the call that has returned
\* with the error event as the last frame it read, the caller not having cancelled.
C38_ErrorEventFailsTheCall ==
    (provider = "claude" /\ lastFrame.kind = "error" /\ pc = "done" /\ ~ctxDone) =>
        /\ ret # "nil"
        /\ \E i \in 1..Len(Delivered) : Delivered[i].Err # "nil"
        /\ ~HasFinal(Delivered)

\* C37: for Claude, given the same vendor values of input_tokens, output_tokens,
\* cache_creation_input_tokens and cache_read_input_tokens, GenerateText and
\* GenerateTextStream return equal UsageInfo records.
C37_SameUsageOnBothPaths ==
    (utext # NilUsage /\ ustream # NilUsage) => utext = ustream

\* C39: for every input on which ExtractJSONFromString succeeds,
\* ExtractValidJSON returns the same string.
C39_BestAgreesWithStrict ==
    (xstrict.done /\ xstrict.ok /\ xbest.done) => xbest.text = xstrict.text

=============================================================================
